---- MODULE Spec2Model ----
(***************************************************************************)
(* A model of the streaming agent loop of textual-cli-agent:               *)
(*   - AgentEngine.run_stream and its tool dispatch (engine.py),           *)
(*   - the adapters' _completions_stream_with_retry (providers/*.py),      *)
(*   - the error classifier and retry controller (error_handler.py).       *)
(* Python values are modelled as follows: a dict is a record whose domain  *)
(* is the set of keys the dict has (so dict.get is Get below), a str that  *)
(* the code builds by concatenation or formatting is a sequence of string  *)
(* tokens, None and other non-dict values are records with one marker      *)
(* field, and an Optional[int] is <<>> (None) or <<n>>.                    *)
(***************************************************************************)
EXTENDS Integers, Sequences, FiniteSets, TLC

\* ------------------------------------------------------------------------
\* Bounds of the model
\* ------------------------------------------------------------------------
\* chunks one provider stream yields before it ends or raises
MaxChunks == 2
\* events one vendor stream delivers
MaxStreamEvents == 1

\* ------------------------------------------------------------------------
\* Python values
\* ------------------------------------------------------------------------
PyNone == [pynone |-> TRUE]
PyStr(s) == [pystr |-> s]
PyList == [pylist |-> TRUE]

\* isinstance(v, dict)
IsInstanceDict(v) == DOMAIN v \cap {"pynone", "pystr", "pylist"} = {}

\* d.get(k, default)
Get(d, k, default) == IF k \in DOMAIN d THEN d[k] ELSE default

\* Optional[int]
NoneInt == <<>>
Some(n) == <<n>>

Max(a, b) == IF a >= b THEN a ELSE b

\* "".join(parts)
RECURSIVE Join(_)
Join(parts) == IF parts = <<>> THEN <<>> ELSE Head(parts) \o Join(Tail(parts))

\* sub in text, for a one-token sub
Contains(text, tok) == \E i \in 1..Len(text) : text[i] = tok

\* ------------------------------------------------------------------------
\* State
\* ------------------------------------------------------------------------
VARIABLES
    \* AgentEngine fields
    tool_timeout,           \* self.tool_timeout (seconds)
    concurrency_limit,      \* self.concurrency_limit: NoneInt or Some(n)
    \* the caller
    history,                \* the caller's message list (app.messages)
    \* one run_stream invocation
    pc,                     \* position of the generator
    messages,               \* the argument of run_stream
    provider_calls,         \* calls of provider.completions_stream
    nchunks,                \* chunks the provider stream has yielded
    consumed,               \* the chunks the provider stream has yielded this round
    assistant_text_parts,
    tool_calls,
    scheduled_tools,
    pending_tool_messages,
    had_tool_calls,
    sem,                    \* asyncio.Semaphore value: NoneInt or Some(free)
    trun,                   \* per scheduled tool: its task's state and run time
    results,                \* the list asyncio.gather fills, by position
    reordered,              \* some task ended before one gather created earlier
    ri,                     \* index of the zip loop over the results
    pi,                     \* index of the loop over pending_tool_messages
    events,                 \* what the generator has yielded to its consumer
    \* one adapter and the process-wide api_error_handler
    a_self,                 \* the adapter class the session uses
    retry_counts,           \* api_error_handler.retry_counts
    a_pc,                   \* position of completions_stream
    a_key,                  \* id(original_messages) of the outermost call
    retry_count,            \* the retry_count argument of the current call
    vendor_calls,           \* vendor calls of this completions_stream
    a_nchunks,              \* events the current vendor stream has delivered
    a_error,                \* the exception being handled
    a_events,               \* what completions_stream has yielded
    \* direct callers of api_error_handler
    h_last,                 \* the last handle_error_with_retry call
    h_granted,              \* per key: retries granted since the last reset
    \* the tool-call buffers of the OpenAI adapter's stream loop
    o_full,                 \* per tool-call index: the argument JSON the vendor sends
    o_sent,                 \* per index: how much of it has been delivered
    o_nfrag,                \* per index: in how many non-empty fragments
    arg_buf,
    name_buf,
    id_buf,
    emitted,
    o_events,               \* the tool_call chunks yielded, with their index
    \* a caller of analyze_error
    c_error,                \* str(error)
    c_analysis,             \* <<>> or the ErrorAnalysis returned
    \* the context manager and a caller of it
    preserve_recent_messages,
    max_context_messages,
    p_messages,             \* the caller's message list
    p_call,                 \* <<>> or the call made
    p_result,               \* <<>> or the list returned
    \* one call of the parallel_run tool
    pr_form,                \* what the entries of tasks are
    pr_tasks,               \* tasks
    pr_results,             \* per task: NotYet or what run_one returned
    pr_return,              \* <<>> or the list parallel_run returned
    \* one call of _execute_tool_internal of an engine with an MCP manager
    mcp_manager,            \* self.mcp_manager: PyNone or its tools and clients
    m_name,                 \* the tool name
    m_outcome,              \* how the registered function ends, if it is run
    m_calls,                \* the calls made, in order
    m_result,               \* <<>> or what the call returned
    \* the list objects of one streaming call of the OpenAI adapter
    f_heap,                 \* the list objects: f_heap[1] is the caller's list
    f_snapshot,             \* the caller's list when run_stream was called
    f_pc,
    f_orig,                 \* original_messages of the attempt: a list object
    f_retry,                \* retry_count of the attempt
    f_msgs,                 \* <<>> or the messages of the last vendor call
    \* tool functions under asyncio.wait_for
    x_tools,                \* the registered functions of the calls in flight
    x_steps,                \* steps each function has performed
    x_wait,                 \* each wait_for: "awaiting", "returned", "timeout"
    x_results,              \* what each _execute_tool_safely returned
    \* the auto-round loop of the UI
    auto_continue,
    max_rounds,
    u_pc,
    rounds,
    had_tools_this_round,
    u_calls,                \* invocations of run_stream for the prompt
    u_emitted,              \* messages of the append_message events of the prompt
    u_appended,             \* messages appended to app.messages for the prompt
    \* the todo store
    todos,                  \* _todos
    t_last,                 \* the last call of a todo tool and what it returned
    \* the tool selection of the engine
    enabled_tools           \* self.enabled_tools: NoneInt or Some(set of names)

adapter_vars == <<a_self, retry_counts, a_pc, a_key, retry_count,
                  vendor_calls, a_nchunks, a_error, a_events>>
\* the state the actions of run_stream leave alone
handler_vars == <<h_last, h_granted>>
\* the components that are exercised on their own
openai_vars == <<o_full, o_sent, o_nfrag, arg_buf, name_buf, id_buf, emitted, o_events>>
classifier_vars == <<c_error, c_analysis>>
context_vars == <<preserve_recent_messages, max_context_messages, p_messages, p_call, p_result>>
parallel_vars == <<pr_form, pr_tasks, pr_results, pr_return>>
mcp_vars == <<mcp_manager, m_name, m_outcome, m_calls, m_result>>
flow_vars == <<f_heap, f_snapshot, f_pc, f_orig, f_retry, f_msgs>>
exec_vars == <<x_tools, x_steps, x_wait, x_results>>
ui_vars == <<auto_continue, max_rounds, u_pc, rounds, had_tools_this_round, u_calls,
             u_emitted, u_appended>>
todo_vars == <<todos, t_last>>
tools_vars == <<enabled_tools>>
late_vars == <<todo_vars, tools_vars>>
tail_vars == <<exec_vars, ui_vars, late_vars>>
rest_vars == <<parallel_vars, mcp_vars, flow_vars, tail_vars>>
aux_vars == <<handler_vars, openai_vars, classifier_vars, context_vars, rest_vars>>
other_vars == <<adapter_vars, aux_vars>>

engine_vars == <<tool_timeout, concurrency_limit>>
caller_vars == <<history>>
local_vars == <<messages, provider_calls, nchunks, consumed, assistant_text_parts,
                tool_calls, scheduled_tools, pending_tool_messages,
                had_tool_calls, sem, trun, results, reordered, ri, pi>>
run_vars == <<engine_vars, caller_vars, pc, local_vars, events>>
vars == <<run_vars, other_vars>>

\* ------------------------------------------------------------------------
\* Messages, chunks and events
\* ------------------------------------------------------------------------
UserMessage == [role |-> "user", content |-> <<"hi">>]

\* the argument lists test_engine_validates_messages passes, and a list
\* whose second entry is malformed
MalformedInputs ==
    { <<>>,
      <<PyStr("not a dict")>>,
      <<[content |-> <<"test">>]>>,
      <<UserMessage, PyStr("not a dict")>>,
      <<UserMessage, [content |-> <<"test">>]>> }

\* what an abstract Provider.completions_stream may yield (providers/base.py)
Chunks ==
    { [type |-> "text", delta |-> <<"a">>],
      [type |-> "text", delta |-> <<"b">>],
      [type |-> "text"],
      PyNone,
      [invalid |-> "chunk"],
      [type |-> "tool_call", id |-> "c1", name |-> "t", arguments |-> [a |-> "1"]],
      [type |-> "tool_call", id |-> "c2", name |-> "t", arguments |-> [a |-> "1"]],
      [type |-> "tool_call", name |-> "t", arguments |-> [a |-> "1"]],
      [type |-> "tool_call", id |-> "c1", arguments |-> [a |-> "1"]],
      [type |-> "tool_call", id |-> "c1", name |-> "t", arguments |-> PyList] }

\* names in _TOOL_REGISTRY
Registry == {"t"}

\* how long a tool runs (seconds) and how it ends
Durations == {45, 90}
Outcomes == {"returns", "returns_object", "raises"}

ErrorText(parts) == [type |-> "text", delta |-> <<"[ERROR]">> \o parts]

\* run_stream, lines 35-54: the event of the first failed check, or PyNone
RECURSIVE ValidateFrom(_, _)
ValidateFrom(msgs, i) ==
    IF i > Len(msgs) THEN PyNone
    ELSE IF ~IsInstanceDict(msgs[i])
         THEN ErrorText(<<"Invalid message format at index", ToString(i - 1)>>)
    ELSE IF "role" \notin DOMAIN msgs[i]
         THEN ErrorText(<<"Message missing role at index", ToString(i - 1)>>)
    ELSE ValidateFrom(msgs, i + 1)

Validate(msgs) ==
    IF msgs = <<>> THEN ErrorText(<<"No messages provided">>)
    ELSE ValidateFrom(msgs, 1)

\* ------------------------------------------------------------------------
\* Tool execution (tools/registry.py, engine.py)
\* ------------------------------------------------------------------------
DefaultToolTimeout == 60
\* the timeout _execute_tool_safely passes to asyncio.wait_for
WaitForTimeout == 60

\* an exception that leaves a function
Raise(parts) == [raised |-> parts]
Raised(v) == "raised" \in DOMAIN v

\* type(args).__name__
TypeName(v) ==
    IF "pylist" \in DOMAIN v THEN "list"
    ELSE IF "pystr" \in DOMAIN v THEN "str"
    ELSE IF "pynone" \in DOMAIN v THEN "NoneType"
    ELSE "dict"

\* execute_tool: the i-th call of the round runs the registered function,
\* which ends as `outcome` says
ExecuteTool(name, arguments, outcome, i) ==
    IF name \notin Registry THEN Raise(<<"Unknown tool:", name>>)
    ELSE IF outcome = "returns" THEN [result |-> <<name, ToString(i)>>]
    ELSE IF outcome = "returns_object" THEN [pyobject |-> ToString(i)]
    ELSE Raise(<<"tool failed", ToString(i)>>)

\* AgentEngine._execute_tool_internal, without an MCP manager
ExecuteToolInternal(name, args, outcome, i) ==
    LET r == ExecuteTool(name, args, outcome, i)
    IN  IF Raised(r) THEN [error |-> r.raised] ELSE r

\* a dispatcher that awaits the tool with no timeout and no exception capture
MutExecuteToolSafely(name, args, dur, outcome, i) ==
    IF ~IsInstanceDict(args)
    THEN [error |-> <<"Tool arguments must be a dictionary, got", TypeName(args)>>]
    ELSE ExecuteTool(name, args, outcome, i)

\* AgentEngine._execute_tool_safely; dur is the time the registered
\* function needs (an unknown tool fails at once)
ExecuteToolSafely(name, args, dur, outcome, i) ==
    IF ~IsInstanceDict(args)
    THEN [error |-> <<"Tool arguments must be a dictionary, got", TypeName(args)>>]
    ELSE IF name \in Registry /\ dur > WaitForTimeout
    THEN [error |-> <<"Tool", name, "execution timed out">>]
    ELSE LET r == ExecuteToolInternal(name, args, outcome, i)
         IN  IF Raised(r)
             THEN [error |-> <<"Tool execution error:">> \o r.raised]
             ELSE r

\* json.dumps of a tool result: the string, or the TypeError it raises
JsonDumps(res) ==
    IF "pyobject" \in DOMAIN res THEN Raise(<<"Object is not JSON serializable">>)
    ELSE IF "error" \in DOMAIN res THEN [json |-> <<"{error:">> \o res.error \o <<"}">>]
    ELSE [json |-> <<"{result:">> \o res.result \o <<"}">>]

\* run_stream, lines 141-147
ResultStr(res) ==
    LET s == JsonDumps(res)
    IN  IF Raised(s)
        THEN <<"{error:", "Result serialization failed:">> \o s.raised \o <<"}">>
        ELSE s.json

\* json.dumps of a tool call's arguments
JsonDumpsArgs(args) ==
    IF "pylist" \in DOMAIN args THEN <<"[", "]">>
    ELSE IF DOMAIN args = {} THEN <<"{", "}">>
    ELSE <<"{", "a:", args.a, "}">>

\* OpenAIProvider.format_tool_result_message (the fallback of run_stream,
\* lines 153-158, builds the same message)
FormatToolResultMessage(tool_call_id, content) ==
    [role |-> "tool", tool_call_id |-> tool_call_id, content |-> content]

\* OpenAIProvider.build_assistant_message; tc["id"] and tc["name"] raise
\* KeyError when the key is missing
BuildAssistantMessage(text, tcs) ==
    IF \E i \in 1..Len(tcs) : "id" \notin DOMAIN tcs[i] \/ "name" \notin DOMAIN tcs[i]
    THEN Raise(<<"KeyError">>)
    ELSE LET tc_formatted ==
                 [i \in 1..Len(tcs) |->
                     [id |-> tcs[i].id,
                      type |-> "function",
                      function |-> [name |-> tcs[i].name,
                                    arguments |->
                                        JsonDumpsArgs(Get(tcs[i], "arguments", <<>>))]]]
         IN  IF tc_formatted # <<>>
             THEN [role |-> "assistant", content |-> text, tool_calls |-> tc_formatted]
             ELSE [role |-> "assistant", content |-> text]

\* results collected in order of completion, as asyncio.as_completed gives them
MutGatherStore(res_list, i, order, res) == [res_list EXCEPT ![order] = res]

\* asyncio.gather: the result of the i-th awaitable goes to position i,
\* whatever the order of completion (order = number of completions so far + 1)
GatherStore(res_list, i, order, res) == [res_list EXCEPT ![i] = res]

\* how the task of a call ended: its tool returned or raised, or wait_for
\* cancelled it; and for how long the tool ran
Ending(name, dur, outcome) ==
    IF name \notin Registry THEN "raises"
    ELSE IF dur > WaitForTimeout THEN "cancelled"
    ELSE outcome

RunTime(name, dur) == IF name \in Registry THEN dur ELSE 0

NotYet == [notyet |-> TRUE]

\* ------------------------------------------------------------------------
\* Initial state
\* ------------------------------------------------------------------------
\* AgentEngine.__init__, and no run_stream called yet
EngineCreated ==
    /\ tool_timeout = DefaultToolTimeout
    /\ concurrency_limit = NoneInt
    /\ pc = "idle"
    /\ messages = <<>>
    /\ provider_calls = 0
    /\ nchunks = 0
    /\ consumed = <<>>
    /\ assistant_text_parts = <<>>
    /\ tool_calls = <<>>
    /\ scheduled_tools = <<>>
    /\ pending_tool_messages = <<>>
    /\ had_tool_calls = FALSE
    /\ sem = NoneInt
    /\ trun = <<>>
    /\ results = <<>>
    /\ reordered = FALSE
    /\ ri = 1
    /\ pi = 1
    /\ events = <<>>

EngineInit == EngineCreated /\ history = <<UserMessage>>

\* ------------------------------------------------------------------------
\* The commands that tune the engine (ui/command_processor.py)
\* ------------------------------------------------------------------------
TimeoutArgs == {0, 30, 120}
LimitArgs == {0, 2}

\* /timeout <seconds>
CmdTimeout(seconds) ==
    /\ pc = "idle"
    /\ tool_timeout' = Max(1, seconds)
    /\ UNCHANGED <<other_vars, concurrency_limit, caller_vars, pc, local_vars, events>>

\* /parallel limit <n>
CmdParallelLimit(limit) ==
    /\ pc = "idle"
    /\ concurrency_limit' = Some(Max(1, limit))
    /\ UNCHANGED <<other_vars, tool_timeout, caller_vars, pc, local_vars, events>>

\* /parallel on|off
CmdParallel(value) ==
    /\ pc = "idle"
    /\ concurrency_limit' = IF value = "on" THEN NoneInt ELSE Some(1)
    /\ UNCHANGED <<other_vars, tool_timeout, caller_vars, pc, local_vars, events>>

\* ------------------------------------------------------------------------
\* AgentEngine.run_stream
\* ------------------------------------------------------------------------
\* the caller invokes run_stream(msgs): its own history, or a malformed list;
\* pc is "idle" before the call and "done" once the generator is exhausted
RunStream(msgs) ==
    /\ pc = "idle"
    /\ messages' = msgs
    /\ pc' = "validate"
    /\ provider_calls' = 0
    /\ nchunks' = 0
    /\ consumed' = <<>>
    /\ assistant_text_parts' = <<>>
    /\ tool_calls' = <<>>
    /\ scheduled_tools' = <<>>
    /\ pending_tool_messages' = <<>>
    /\ had_tool_calls' = FALSE
    /\ sem' = NoneInt
    /\ trun' = <<>>
    /\ results' = <<>>
    /\ reordered' = FALSE
    /\ ri' = 1
    /\ pi' = 1
    /\ events' = <<>>
    /\ UNCHANGED <<other_vars, engine_vars, history>>

\* lines 35-54: a failed check yields one [ERROR] text and returns;
\* otherwise line 74 calls the provider
ValidateMessages ==
    /\ pc = "validate"
    /\ LET err == Validate(messages)
       IN  IF err # PyNone
           THEN /\ events' = Append(events, err)
                /\ pc' = "done"
                /\ UNCHANGED provider_calls
           ELSE /\ provider_calls' = provider_calls + 1
                /\ pc' = "stream"
                /\ UNCHANGED events
    /\ UNCHANGED <<other_vars, engine_vars, caller_vars, messages, nchunks, consumed,
                   assistant_text_parts, tool_calls, scheduled_tools,
                   pending_tool_messages, had_tool_calls, sem, trun, results,
                   reordered, ri, pi>>

\* a loop that collects the deltas newest first
MutAccumulate(parts, delta) == IF delta # <<>> THEN <<delta>> \o parts ELSE parts
\* lines 84-86: only non-empty deltas are collected
Accumulate(parts, delta) == IF delta # <<>> THEN Append(parts, delta) ELSE parts
\* a loop that keeps reading the stream while the tools of the round run
MutStreamOpen(p) == p \in {"stream", "dispatch"}
\* the async for of line 74 is still iterating: the statements after it
\* (lines 117-188) run only once it has ended
StreamOpen(p) == p = "stream"
\* lines 77-101: the loop body for one chunk of the provider stream
StreamChunk(chunk) ==
    /\ StreamOpen(pc)
    /\ nchunks < MaxChunks
    /\ nchunks' = nchunks + 1
    /\ consumed' = Append(consumed, chunk)
    /\ IF ~IsInstanceDict(chunk) THEN
           UNCHANGED <<assistant_text_parts, tool_calls, scheduled_tools,
                       had_tool_calls, events>>
       ELSE IF Get(chunk, "type", "None") = "text" THEN
           LET delta == Get(chunk, "delta", <<>>)
           IN  /\ assistant_text_parts' = Accumulate(assistant_text_parts, delta)
               /\ events' = Append(events, chunk)
               /\ UNCHANGED <<tool_calls, scheduled_tools, had_tool_calls>>
       ELSE IF Get(chunk, "type", "None") = "tool_call" THEN
           /\ had_tool_calls' = TRUE
           /\ tool_calls' = Append(tool_calls, chunk)
           /\ scheduled_tools' = Append(scheduled_tools,
                  [id |-> Get(chunk, "id", "call_" \o ToString(Len(tool_calls) + 1)),
                   name |-> Get(chunk, "name", "unknown_tool"),
                   arguments |-> Get(chunk, "arguments", <<>>)])
           /\ UNCHANGED <<assistant_text_parts, events>>
       ELSE
           UNCHANGED <<assistant_text_parts, tool_calls, scheduled_tools,
                       had_tool_calls, events>>
    /\ UNCHANGED <<other_vars, engine_vars, caller_vars, pc, messages, provider_calls,
                   pending_tool_messages, sem, trun, results, reordered, ri, pi>>

\* lines 117-124: after the stream, the dispatch phase starts if tools are
\* scheduled
\* a round that drops the calls it scheduled
MutPcAfterStream(scheduled) == "finalize"
PcAfterStream(scheduled) == IF scheduled # <<>> THEN "dispatch" ELSE "finalize"

AfterStream ==
    /\ pc' = PcAfterStream(scheduled_tools)
    /\ IF scheduled_tools # <<>>
       THEN
            /\ sem' = IF concurrency_limit # NoneInt /\ concurrency_limit[1] > 0
                      THEN Some(concurrency_limit[1]) ELSE NoneInt
            /\ trun' = [i \in 1..Len(scheduled_tools) |->
                           [state |-> "queued", dur |-> 0, ending |-> "none"]]
            /\ results' = [i \in 1..Len(scheduled_tools) |-> NotYet]
       ELSE UNCHANGED <<sem, trun, results>>

\* the provider stream ends
StreamEnd ==
    /\ pc = "stream"
    /\ AfterStream
    /\ UNCHANGED <<other_vars, engine_vars, caller_vars, messages, provider_calls, nchunks, consumed,
                   assistant_text_parts, tool_calls, scheduled_tools,
                   pending_tool_messages, had_tool_calls, reordered, ri, pi,
                   events>>

\* lines 110-115: the provider raises, at call time or mid-stream
StreamRaise ==
    /\ pc = "stream"
    /\ events' = Append(events, ErrorText(<<"Provider stream failed:", "boom">>))
    /\ AfterStream
    /\ UNCHANGED <<other_vars, engine_vars, caller_vars, messages, provider_calls, nchunks, consumed,
                   assistant_text_parts, tool_calls, scheduled_tools,
                   pending_tool_messages, had_tool_calls, reordered, ri, pi>>

\* ------------------------------------------------------------------------
\* Dispatch phase: asyncio.gather over _run_with_limit (lines 126-139)
\* ------------------------------------------------------------------------
InFlight == Cardinality({i \in 1..Len(trun) : trun[i].state = "running"})

\* tasks that have ended
NumDone(tr) == Cardinality({i \in 1..Len(tr) : tr[i].state = "done"})

\* the i-th task ends while a task created before it has not
EndsEarly(tr, i) == \E j \in 1..(i - 1) : tr[j].state # "done"

AllDone(tr) == \A i \in 1..Len(tr) : tr[i].state = "done"

\* a semaphore that is entered without being taken
MutSemAcquire(s) == s
\* a semaphore that is never given back
MutSemRelease(s) == s

SemAcquire(s) == IF s = NoneInt THEN s ELSE Some(s[1] - 1)
SemRelease(s) == IF s = NoneInt THEN s ELSE Some(s[1] + 1)
SemFree(s) == IF s = NoneInt THEN TRUE ELSE s[1] > 0

\* the task of the i-th scheduled call starts: it takes the semaphore, if
\* there is one, and awaits the tool; tasks start and queue on the semaphore
\* in the order gather created them. Arguments that are no dict are
\* answered without awaiting anything.
ToolStart(i) ==
    /\ pc = "dispatch"
    /\ i \in 1..Len(trun)
    /\ trun[i].state = "queued"
    /\ \A j \in 1..(i - 1) : trun[j].state # "queued"
    /\ SemFree(sem)
    /\ LET t == scheduled_tools[i]
       IN  IF ~IsInstanceDict(t.arguments)
           THEN LET tr == [trun EXCEPT ![i] = [state |-> "done", dur |-> 0,
                                                 ending |-> "rejected"]]
                IN  /\ trun' = tr
                    /\ results' = GatherStore(results, i, NumDone(trun) + 1,
                           ExecuteToolSafely(t.name, t.arguments, 0, "returns", i))
                    /\ reordered' = (reordered \/ EndsEarly(trun, i))
                    /\ pc' = IF AllDone(tr) THEN "emit" ELSE pc
                    /\ UNCHANGED sem
           ELSE /\ trun' = [trun EXCEPT ![i].state = "running"]
                /\ sem' = SemAcquire(sem)
                /\ UNCHANGED <<results, reordered, pc>>
    /\ UNCHANGED <<other_vars, engine_vars, caller_vars, messages, provider_calls, nchunks, consumed,
                   assistant_text_parts, tool_calls, scheduled_tools,
                   pending_tool_messages, had_tool_calls, ri, pi, events>>

\* the task of the i-th scheduled call ends after dur seconds: the tool
\* returned or raised, or wait_for cancelled it. An exception that leaves
\* _execute_tool_safely makes gather raise (return_exceptions=False), which
\* line 165 catches: the round goes on without results.
ToolFinish(i, dur, outcome) ==
    /\ pc = "dispatch"
    /\ i \in 1..Len(trun)
    /\ trun[i].state = "running"
    /\ LET t == scheduled_tools[i]
           res == ExecuteToolSafely(t.name, t.arguments, dur, outcome, i)
           tr == [trun EXCEPT ![i] = [state |-> "done",
                                      dur |-> RunTime(t.name, dur),
                                      ending |-> Ending(t.name, dur, outcome)]]
       IN  /\ trun' = tr
           /\ sem' = SemRelease(sem)
           /\ reordered' = (reordered \/ EndsEarly(trun, i))
           /\ IF Raised(res)
              THEN /\ pc' = "finalize"
                   /\ UNCHANGED results
              ELSE /\ results' = GatherStore(results, i, NumDone(trun) + 1, res)
                   /\ pc' = IF AllDone(tr) THEN "emit" ELSE pc
    /\ UNCHANGED <<other_vars, engine_vars, caller_vars, messages, provider_calls, nchunks, consumed,
                   assistant_text_parts, tool_calls, scheduled_tools,
                   pending_tool_messages, had_tool_calls, ri, pi, events>>

\* lines 140-164: one turn of the loop over zip(scheduled_tools, results)
EmitResult ==
    /\ pc = "emit"
    /\ LET t == scheduled_tools[ri]
           result_str == ResultStr(results[ri])
       IN  /\ pending_tool_messages' =
                  Append(pending_tool_messages, FormatToolResultMessage(t.id, result_str))
           /\ events' = Append(events,
                  [type |-> "tool_result", id |-> t.id, content |-> result_str])
    /\ ri' = ri + 1
    /\ pc' = IF ri = Len(scheduled_tools) THEN "finalize" ELSE pc
    /\ UNCHANGED <<other_vars, engine_vars, caller_vars, messages, provider_calls, nchunks, consumed,
                   assistant_text_parts, tool_calls, scheduled_tools,
                   had_tool_calls, sem, trun, results, reordered, pi>>

\* ------------------------------------------------------------------------
\* Finalize (lines 168-188); the caller appends the message of every
\* append_message event to its history (ui/conversation.py, line 205)
\* ------------------------------------------------------------------------
\* a build failure that is swallowed without the fallback message
MutAssistantEvents(built, final_text) ==
    IF Raised(built) THEN <<>>
    ELSE <<[type |-> "append_message", message |-> built]>>

\* lines 169-182: the events that carry the assistant message, built by
\* the adapter or, when that raised, the fallback
AssistantEvents(built, final_text) ==
    IF Raised(built)
    THEN <<[type |-> "append_message",
            message |-> [role |-> "assistant", content |-> final_text]]>>
    ELSE <<[type |-> "append_message", message |-> built]>>

Messages(evts) == [i \in 1..Len(evts) |-> evts[i].message]

\* a generator that returns after the assistant message when no tool ran
MutPcAfterBuild(pending) == IF pending # <<>> THEN "append" ELSE "done"

PcAfterBuild(pending) == IF pending # <<>> THEN "append" ELSE "complete"

BuildAssistant ==
    /\ pc = "finalize"
    /\ LET final_text == Join(assistant_text_parts)
           built == BuildAssistantMessage(final_text, tool_calls)
           yielded == AssistantEvents(built, final_text)
       IN  /\ events' = events \o yielded
           /\ history' = history \o Messages(yielded)
    /\ pc' = PcAfterBuild(pending_tool_messages)
    /\ UNCHANGED <<other_vars, engine_vars, local_vars>>

AppendPending ==
    /\ pc = "append"
    /\ events' = Append(events,
           [type |-> "append_message", message |-> pending_tool_messages[pi]])
    /\ history' = Append(history, pending_tool_messages[pi])
    /\ pi' = pi + 1
    /\ pc' = IF pi = Len(pending_tool_messages) THEN "complete" ELSE pc
    /\ UNCHANGED <<other_vars, engine_vars, messages, provider_calls, nchunks, consumed,
                   assistant_text_parts, tool_calls, scheduled_tools,
                   pending_tool_messages, had_tool_calls, sem, trun, results,
                   reordered, ri>>

RoundComplete ==
    /\ pc = "complete"
    /\ events' = Append(events,
           [type |-> "round_complete", had_tool_calls |-> had_tool_calls])
    /\ pc' = "done"
    /\ UNCHANGED <<other_vars, engine_vars, caller_vars, local_vars>>

\* ------------------------------------------------------------------------
\* Error classification (error_handler.py)
\*
\* str(error) is a sequence of tokens.  Has(tok) is the set of the keywords
\* analyze_error searches for that occur in the token as written, Lower(tok)
\* is tok.lower().
\* ------------------------------------------------------------------------
Lower(tok) ==
    CASE tok = "RATE_LIMIT_EXCEEDED" -> "rate_limit_exceeded"
      [] tok = "CONTEXT" -> "context"
      [] tok = "Connection" -> "connection"
      [] tok = "TPM" -> "tpm"
      [] tok = "Try again in 20s" -> "try again in 20s"
      [] tok = "Try again in 7s" -> "try again in 7s"
      [] OTHER -> tok

Has(tok) ==
    CASE tok \in {"429", "400", "401", "403", "404", "422",
                  "500", "502", "503", "504"} -> {tok}
      [] tok \in {"rate_limit_exceeded", "token", "context", "window",
                  "timeout", "connection", "network", "tpm", "rpm"} -> {tok}
      [] tok = "tokens" -> {"token", "tokens"}
      [] tok = "tokens per min" -> {"token", "tokens", "tokens per min"}
      [] tok = "requests per min" -> {"requests per min"}
      [] tok = "maximum context length" ->
             {"context", "maximum context length"}
      [] OTHER -> {}

LowerStr(text) == [i \in 1..Len(text) |-> Lower(text[i])]

\* kw in text
In(kw, text) == \E i \in 1..Len(text) : kw \in Has(text[i])

\* f"{wait_seconds}" of a float with an integral value
FloatStr(n) == ToString(n) \o ".0"

ErrorAnalysis(error_type, is_recoverable, should_retry, should_reduce_context, should_prune_messages, wait_seconds, recovery_message) ==
    [error_type |-> error_type,
     is_recoverable |-> is_recoverable,
     should_retry |-> should_retry,
     should_reduce_context |-> should_reduce_context,
     should_prune_messages |-> should_prune_messages,
     wait_seconds |-> wait_seconds,
     recovery_message |-> recovery_message]

\* the number N of a token matching r"try again in (\d+)s"
TryAgainSeconds(tok) ==
    CASE tok = "try again in 20s" -> Some(20)
      [] tok = "try again in 7s" -> Some(7)
      [] OTHER -> NoneInt

\* re.search(r"try again in (\d+)s", lower): the leftmost match
TimeMatch(lower) ==
    LET hits == {i \in 1..Len(lower) : TryAgainSeconds(lower[i]) # NoneInt} IN
    IF hits = {} THEN NoneInt
    ELSE TryAgainSeconds(lower[CHOOSE i \in hits : \A j \in hits : i <= j])

\* _analyze_rate_limit_error: wait_seconds
RateLimitWait(error_str) ==
    LET lower == LowerStr(error_str)
        time_match == TimeMatch(lower)
    IN  IF time_match # NoneInt THEN time_match[1]
        ELSE IF In("tpm", lower) \/ In("tokens per min", lower) THEN 20
        ELSE IF In("rpm", lower) \/ In("requests per min", lower) THEN 60
        ELSE 60

AnalyzeRateLimitError(error_str) ==
    LET lower == LowerStr(error_str)
        wait_seconds == RateLimitWait(error_str)
        tok == In("tpm", lower) \/ In("tokens", lower)
    IN  ErrorAnalysis("rate_limit", TRUE, TRUE, tok, tok, Some(wait_seconds),
                      <<"Rate limit exceeded. Waiting ", FloatStr(wait_seconds),
                        "s before retrying...">>)

\* _analyze_token_limit_error
AnalyzeTokenLimitError(error_str) ==
    ErrorAnalysis("token_limit", TRUE, TRUE, TRUE, TRUE, NoneInt,
        <<"Token limit exceeded. Reducing conversation history and retrying...">>)

ClientCodes == {"400", "401", "403", "404", "422", "429"}
ServerCodes == {"500", "502", "503", "504"}
NetworkTerms == {"timeout", "connection", "network"}

UnknownAnalysis(error_str) ==
    ErrorAnalysis("unknown", FALSE, FALSE, FALSE, FALSE, NoneInt,
                  <<"Unknown error: ">> \o error_str)

\* analyze_error, after the checks for 401, 403 and 422
AnalyzeOther(error_str) ==
    LET error_lower == LowerStr(error_str) IN
    IF \E code \in ServerCodes : In(code, error_str) THEN
        ErrorAnalysis("server_error", TRUE, TRUE, FALSE, FALSE, Some(5),
            <<"Server error encountered. Retrying in 5 seconds...">>)
    ELSE IF \E term \in NetworkTerms : In(term, error_lower) THEN
        ErrorAnalysis("network_error", TRUE, TRUE, FALSE, FALSE, Some(2),
            <<"Network error. Retrying in 2 seconds...">>)
    ELSE UnknownAnalysis(error_str)

\* a classifier that looks for a context overflow before anything else
MutAnalyzeFirst(error_str) ==
    LET error_lower == LowerStr(error_str) IN
    IF (In("context", error_lower) /\ In("window", error_lower))
       \/ In("maximum context length", error_lower) THEN
        ErrorAnalysis("context_exceeded", TRUE, TRUE, TRUE, TRUE, NoneInt,
            <<"Context window exceeded. Reducing message history and retrying...">>)
    ELSE IF In("429", error_str) /\ In("rate_limit_exceeded", error_str) THEN
        AnalyzeRateLimitError(error_str)
    ELSE IF In("400", error_str)
            /\ (In("token", error_lower) \/ In("context", error_lower)) THEN
        AnalyzeTokenLimitError(error_str)
    ELSE IF In("401", error_str) THEN
        ErrorAnalysis("auth_error", FALSE, FALSE, FALSE, FALSE, NoneInt,
            <<"Authentication failed. Please check your API key.">>)
    ELSE IF In("403", error_str) THEN
        ErrorAnalysis("forbidden", FALSE, FALSE, FALSE, FALSE, NoneInt,
            <<"Access forbidden. Check API permissions or usage limits.">>)
    ELSE IF In("422", error_str) THEN
        ErrorAnalysis("validation_error", TRUE, FALSE, TRUE, TRUE, NoneInt,
            <<"Request validation failed. Attempting to fix request format...">>)
    ELSE AnalyzeOther(error_str)

AnalyzeError(error_str) ==
    LET error_lower == LowerStr(error_str) IN
    IF In("429", error_str) /\ In("rate_limit_exceeded", error_str) THEN
        AnalyzeRateLimitError(error_str)
    ELSE IF In("400", error_str)
            /\ (In("token", error_lower) \/ In("context", error_lower)) THEN
        AnalyzeTokenLimitError(error_str)
    ELSE IF (In("context", error_lower) /\ In("window", error_lower))
            \/ In("maximum context length", error_lower) THEN
        ErrorAnalysis("context_exceeded", TRUE, TRUE, TRUE, TRUE, NoneInt,
            <<"Context window exceeded. Reducing message history and retrying...">>)
    ELSE IF (\E code \in ClientCodes : In(code, error_str))
            /\ In("401", error_str) THEN
        ErrorAnalysis("auth_error", FALSE, FALSE, FALSE, FALSE, NoneInt,
            <<"Authentication failed. Please check your API key.">>)
    ELSE IF (\E code \in ClientCodes : In(code, error_str))
            /\ In("403", error_str) THEN
        ErrorAnalysis("forbidden", FALSE, FALSE, FALSE, FALSE, NoneInt,
            <<"Access forbidden. Check API permissions or usage limits.">>)
    ELSE IF (\E code \in ClientCodes : In(code, error_str))
            /\ In("422", error_str) THEN
        ErrorAnalysis("validation_error", TRUE, FALSE, TRUE, TRUE, NoneInt,
            <<"Request validation failed. Attempting to fix request format...">>)
    ELSE AnalyzeOther(error_str)

ShouldPruneContext(error_str) == AnalyzeError(error_str).should_prune_messages

GetRecoveryMessage(error_str) == AnalyzeError(error_str).recovery_message

max_retries == 3

\* a handler whose count check is off by one
MutHandleErrorWithRetry(counts, retry_key, error_str) ==
    LET analysis == AnalyzeError(error_str)
        count == Get(counts, retry_key, 0)
    IN  IF ~analysis.is_recoverable THEN [reraised |-> TRUE, counts |-> counts]
        ELSE IF count > max_retries THEN [reraised |-> TRUE, counts |-> counts]
        ELSE IF ~analysis.should_retry THEN [reraised |-> TRUE, counts |-> counts]
        ELSE [reraised |-> FALSE,
              counts |-> [k \in DOMAIN counts \cup {retry_key} |->
                             IF k = retry_key THEN count + 1 ELSE counts[k]]]

\* handle_error_with_retry up to the point where it delegates to retry_func:
\* whether it re-raises, and retry_counts afterwards
HandleErrorWithRetry(counts, retry_key, error_str) ==
    LET analysis == AnalyzeError(error_str)
        count == Get(counts, retry_key, 0)
    IN  IF ~analysis.is_recoverable THEN [reraised |-> TRUE, counts |-> counts]
        ELSE IF count >= max_retries THEN [reraised |-> TRUE, counts |-> counts]
        ELSE IF ~analysis.should_retry THEN [reraised |-> TRUE, counts |-> counts]
        ELSE [reraised |-> FALSE,
              counts |-> [k \in DOMAIN counts \cup {retry_key} |->
                             IF k = retry_key THEN count + 1 ELSE counts[k]]]

\* ------------------------------------------------------------------------
\* The provider adapters (providers/*_provider.py): completions_stream
\* ------------------------------------------------------------------------
Providers == {"openai", "anthropic", "ollama"}

\* the list objects a caller passes as messages (id(original_messages))
ListIds == {"L1"}

\* what the vendor can fail with, at call time or while streaming
ErrorTexts ==
    { <<"429", "rate_limit_exceeded">>,
      <<"400", "maximum context length">>,
      <<"422">>,
      <<"Connection", "lost">>,
      <<"401">>,
      <<"403">>,
      <<"boom">> }

\* the events of a vendor stream the adapter turns into a chunk
StreamEvents == { [type |-> "text", delta |-> <<"a">>] }

NoKey == <<>>
NoError == [at |-> "none", error |-> <<>>]

RetryKey(p, l) == <<p, "_stream_", l>>

TextEvent(parts) == [type |-> "text", delta |-> parts]

\* the guard of the retry with pruned context
MutMayPruneRetry(rc) == rc < 3

MayPruneRetry(rc) == rc < 2

\* a guard that forgets that the handler retries only the first failure
MutMayHandlerRetry(analysis, rc) ==
    analysis.is_recoverable /\ analysis.should_retry

\* the guard of the retry through the error handler
MayHandlerRetry(analysis, rc) ==
    analysis.is_recoverable /\ analysis.should_retry /\ rc = 0

\* the delta of the terminal event
ErrorDelta(p, at, error_str) ==
    IF at = "call" \/ p = "ollama" THEN
        <<"[ERROR] API call failed: ">> \o error_str
    ELSE IF p = "openai" THEN
        <<"[ERROR] Stream processing failed: ">> \o error_str
    ELSE <<"[ERROR] Stream iteration failed: ">> \o error_str

RecoveryEvent(error_str) ==
    TextEvent(<<"[RECOVERY] ">> \o GetRecoveryMessage(error_str))

AdapterInit ==
    /\ a_self \in Providers
    /\ retry_counts = <<>>
    /\ a_pc = "idle"
    /\ a_key = NoKey
    /\ retry_count = 0
    /\ vendor_calls = 0
    /\ a_nchunks = 0
    /\ a_error = NoError
    /\ a_events = <<>>

\* a caller iterates completions_stream(messages) of the adapter
CompletionsStream(l) ==
    /\ a_pc \in {"idle", "done"}
    /\ a_key' = RetryKey(a_self, l)
    /\ a_pc' = "call"
    /\ retry_count' = 0
    /\ vendor_calls' = 0
    /\ a_nchunks' = 0
    /\ a_error' = NoError
    /\ a_events' = <<>>
    /\ UNCHANGED <<a_self, retry_counts, run_vars, aux_vars>>

\* the vendor call returns a stream
CallSucceeds ==
    /\ a_pc = "call"
    /\ vendor_calls' = vendor_calls + 1
    /\ a_nchunks' = 0
    /\ a_pc' = "streaming"
    /\ UNCHANGED <<a_self, retry_counts, a_key, retry_count, a_error,
                   a_events, run_vars, aux_vars>>

\* the vendor call raises
CallFails(error_str) ==
    /\ a_pc = "call"
    /\ vendor_calls' = vendor_calls + 1
    /\ a_error' = [at |-> "call", error |-> error_str]
    /\ a_pc' = "failed"
    /\ UNCHANGED <<a_self, retry_counts, a_key, retry_count, a_nchunks,
                   a_events, run_vars, aux_vars>>

\* the vendor stream delivers an event and the adapter yields its chunk
StreamYield(event) ==
    /\ a_pc = "streaming"
    /\ a_nchunks < MaxStreamEvents
    /\ a_nchunks' = a_nchunks + 1
    /\ a_events' = Append(a_events, event)
    /\ UNCHANGED <<a_self, retry_counts, a_pc, a_key, retry_count,
                   vendor_calls, a_error, run_vars, aux_vars>>

\* iterating the vendor stream raises
StreamFails(error_str) ==
    /\ a_pc = "streaming"
    /\ a_error' = [at |-> "stream", error |-> error_str]
    /\ a_pc' = "failed"
    /\ UNCHANGED <<a_self, retry_counts, a_key, retry_count, vendor_calls,
                   a_nchunks, a_events, run_vars, aux_vars>>

\* the vendor stream is exhausted
StreamExhausted ==
    /\ a_pc = "streaming"
    /\ a_pc' = "done"
    /\ UNCHANGED <<a_self, retry_counts, a_key, retry_count, vendor_calls,
                   a_nchunks, a_error, a_events, run_vars, aux_vars>>

\* the except block of _completions_stream_with_retry
HandleFailure ==
    /\ a_pc = "failed"
    /\ LET e == a_error.error
           analysis == AnalyzeError(e)
           handled == HandleErrorWithRetry(retry_counts, a_key, e)
           error_event == TextEvent(ErrorDelta(a_self, a_error.at, e))
       IN  IF a_self = "anthropic" /\ a_error.at = "stream" THEN
               /\ a_events' = Append(a_events, error_event)
               /\ a_pc' = "done"
               /\ UNCHANGED <<retry_counts, retry_count>>
           ELSE IF ShouldPruneContext(e) /\ MayPruneRetry(retry_count) THEN
               /\ a_events' = Append(a_events, RecoveryEvent(e))
               /\ retry_count' = retry_count + 1
               /\ a_pc' = "call"
               /\ UNCHANGED retry_counts
           ELSE IF MayHandlerRetry(analysis, retry_count) THEN
               IF handled.reraised THEN
                   /\ a_events' = a_events \o <<RecoveryEvent(e), error_event>>
                   /\ a_pc' = "done"
                   /\ UNCHANGED <<retry_counts, retry_count>>
               ELSE
                   /\ a_events' = Append(a_events, RecoveryEvent(e))
                   /\ retry_counts' = handled.counts
                   /\ retry_count' = retry_count + 1
                   /\ a_pc' = "call"
           ELSE
               /\ a_events' = Append(a_events, error_event)
               /\ a_pc' = "done"
               /\ UNCHANGED <<retry_counts, retry_count>>
    /\ a_error' = NoError
    /\ UNCHANGED <<a_self, a_key, vendor_calls, a_nchunks, run_vars, aux_vars>>

\* ------------------------------------------------------------------------
\* The retry controller called directly (error_handler.py)
\* ------------------------------------------------------------------------
HandlerKeys == {RetryKey(p, l) : p \in {"openai", "ollama"}, l \in ListIds}

\* retry functions: the events they yield, and whether they raise after them
RetryFns ==
    { [yields |-> <<>>, raises |-> FALSE],
      [yields |-> <<TextEvent(<<"a">>), TextEvent(<<"b">>)>>, raises |-> FALSE],
      [yields |-> <<TextEvent(<<"a">>)>>, raises |-> TRUE] }

NoCall == [called |-> FALSE]

ZeroGranted == [k \in HandlerKeys |-> 0]

HandlerInit ==
    /\ h_last = NoCall
    /\ h_granted = ZeroGranted

\* the chunks handle_error_with_retry passes on from retry_func
MutForward(yields) == IF yields = <<>> THEN yields ELSE <<yields[1]>>

Forward(yields) == yields

\* a caller iterates handle_error_with_retry(error, key, retry_fn) to its end
HandleErrorCall(error_str, key, fn) ==
    /\ LET handled == HandleErrorWithRetry(retry_counts, key, error_str)
       IN  /\ retry_counts' = handled.counts
           /\ h_granted' = IF handled.reraised THEN h_granted
                           ELSE [h_granted EXCEPT ![key] = @ + 1]
           /\ h_last' = [called |-> TRUE,
                         error |-> error_str,
                         key |-> key,
                         fn |-> fn,
                         before |-> retry_counts,
                         invoked |-> ~handled.reraised,
                         seen_by_fn |-> IF handled.reraised THEN NoneInt
                                        ELSE Some(Get(handled.counts, key, 0)),
                         forwarded |-> IF handled.reraised THEN <<>>
                                       ELSE Forward(fn.yields),
                         raised |-> IF handled.reraised THEN Raise(error_str)
                                    ELSE IF fn.raises THEN Raise(<<"RuntimeError">>)
                                    ELSE PyNone]
    /\ UNCHANGED <<run_vars, a_self, a_pc, a_key, retry_count, vendor_calls,
                   a_nchunks, a_error, a_events, openai_vars, classifier_vars, context_vars,
                   rest_vars>>

\* reset_retry_count(key)
ResetRetryCount(key) ==
    /\ retry_counts' = [k \in DOMAIN retry_counts \ {key} |-> retry_counts[k]]
    /\ h_granted' = [h_granted EXCEPT ![key] = 0]
    /\ UNCHANGED <<run_vars, a_self, a_pc, a_key, retry_count, vendor_calls,
                   a_nchunks, a_error, a_events, h_last, openai_vars, classifier_vars,
                   context_vars, rest_vars>>

HandlerNext ==
    \/ \E error_str \in ErrorTexts, key \in HandlerKeys, fn \in RetryFns :
           HandleErrorCall(error_str, key, fn)
    \/ \E key \in HandlerKeys : ResetRetryCount(key)

\* ------------------------------------------------------------------------
\* json.loads on a text of the characters { } " a : 1 , and space
\* ------------------------------------------------------------------------
RECURSIVE SkipWs(_, _)
SkipWs(s, i) == IF i <= Len(s) /\ s[i] = " " THEN SkipWs(s, i + 1) ELSE i

\* the index after the closing quote of a string whose body starts at i, or 0
RECURSIVE ScanString(_, _)
ScanString(s, i) ==
    IF i > Len(s) THEN 0
    ELSE IF s[i] = "\"" THEN i + 1
    ELSE ScanString(s, i + 1)

RECURSIVE ScanNumber(_, _)
ScanNumber(s, i) == IF i <= Len(s) /\ s[i] = "1" THEN ScanNumber(s, i + 1) ELSE i

\* the index after the value that starts at or after i, or 0 if there is none
RECURSIVE ParseValue(_, _)
RECURSIVE ParseMembers(_, _)
ParseValue(s, i) ==
    LET j == SkipWs(s, i) IN
    IF j > Len(s) THEN 0
    ELSE IF s[j] = "{" THEN
        LET k == SkipWs(s, j + 1) IN
        IF k <= Len(s) /\ s[k] = "}" THEN k + 1 ELSE ParseMembers(s, k)
    ELSE IF s[j] = "\"" THEN ScanString(s, j + 1)
    ELSE IF s[j] = "1" THEN ScanNumber(s, j)
    ELSE 0

\* the index after the } that closes the members starting at i, or 0
ParseMembers(s, i) ==
    LET j == SkipWs(s, i) IN
    IF j > Len(s) \/ s[j] # "\"" THEN 0
    ELSE LET k == ScanString(s, j + 1) IN
         IF k = 0 THEN 0
         ELSE LET c == SkipWs(s, k) IN
              IF c > Len(s) \/ s[c] # ":" THEN 0
              ELSE LET v == ParseValue(s, c + 1) IN
                   IF v = 0 THEN 0
                   ELSE LET e == SkipWs(s, v) IN
                        IF e > Len(s) THEN 0
                        ELSE IF s[e] = "," THEN ParseMembers(s, e + 1)
                        ELSE IF s[e] = "}" THEN e + 1
                        ELSE 0

\* the text without the whitespace between its tokens
RECURSIVE Compact(_, _)
Compact(s, in_string) ==
    IF s = <<>> THEN <<>>
    ELSE IF Head(s) = "\"" THEN <<Head(s)>> \o Compact(Tail(s), ~in_string)
    ELSE IF Head(s) = " " /\ ~in_string THEN Compact(Tail(s), in_string)
    ELSE <<Head(s)>> \o Compact(Tail(s), in_string)

\* json.loads(s): the value, written without whitespace, or JSONDecodeError
JsonLoads(s) ==
    LET j == ParseValue(s, 1) IN
    IF j # 0 /\ SkipWs(s, j) = Len(s) + 1
    THEN [value |-> Compact(s, FALSE)]
    ELSE Raise(<<"JSONDecodeError">>)

\* s.strip() is not empty
StripNonEmpty(s) == \E i \in 1..Len(s) : s[i] # " "

\* ------------------------------------------------------------------------
\* The OpenAI adapter's stream loop: tool-call deltas (openai_provider.py,
\* lines 156-207)
\* ------------------------------------------------------------------------
Indexes == {0, 1}

\* the longest fragment of one delta
MaxFragment == 3

\* function.arguments of a tool call, as the vendor produces them: a JSON
\* object, possibly followed by whitespace
Json_Empty == <<"{", "}">>
Json_A1_Ws == <<"{", "\"", "a", "\"", ":", "1", "}", " ">>
Json_Brace == <<"{", "\"", "a", "\"", ":", "\"", "}", "\"", "}">>
Json_Nested == <<"{", "\"", "a", "\"", ":", "{", "}", "}">>

ArgumentJsons == {Json_Empty, Json_A1_Ws, Json_Brace, Json_Nested}

\* tc.id and function.name of a delta: None or the value
DeltaIds == {PyNone, PyStr("call_x")}
DeltaNames == {PyNone, PyStr("t")}

OpenAIIdle ==
    /\ o_full = [idx \in Indexes |-> <<>>]
    /\ o_sent = [idx \in Indexes |-> 0]
    /\ o_nfrag = [idx \in Indexes |-> 0]
    /\ arg_buf = <<>>
    /\ name_buf = <<>>
    /\ id_buf = <<>>
    /\ emitted = {}
    /\ o_events = <<>>

\* the stream is about to deliver the arguments of two tool calls
OpenAIStreamInit ==
    /\ o_full \in [Indexes -> ArgumentJsons]
    /\ o_full[1] = Json_Empty
    /\ o_sent = [idx \in Indexes |-> 0]
    /\ o_nfrag = [idx \in Indexes |-> 0]
    /\ arg_buf = <<>>
    /\ name_buf = <<>>
    /\ id_buf = <<>>
    /\ emitted = {}
    /\ o_events = <<>>

\* d with d[k] = v
Put(d, k, v) == [x \in DOMAIN d \cup {k} |-> IF x = k THEN v ELSE d[x]]

\* an adapter that tries to emit on every delta
MutMayEmit(idx, done, buf) ==
    idx \in DOMAIN buf /\ StripNonEmpty(buf[idx])

\* lines 174-178
MayEmit(idx, done, buf) ==
    idx \notin done /\ idx \in DOMAIN buf /\ StripNonEmpty(buf[idx])

\* lines 158-202: one tool-call delta with the next n characters of the
\* arguments of call idx
ToolCallDelta(idx, n, id, name) ==
    /\ n \in 0..(Len(o_full[idx]) - o_sent[idx])
    /\ LET arguments == SubSeq(o_full[idx], o_sent[idx] + 1, o_sent[idx] + n)
           ids == IF id # PyNone THEN Put(id_buf, idx, id.pystr) ELSE id_buf
           names == IF name # PyNone THEN Put(name_buf, idx, name.pystr) ELSE name_buf
           bufs == IF arguments # <<>>
                   THEN Put(arg_buf, idx, Get(arg_buf, idx, <<>>) \o arguments)
                   ELSE arg_buf
           args_obj == JsonLoads(Get(bufs, idx, <<>>))
       IN  /\ id_buf' = ids
           /\ name_buf' = names
           /\ arg_buf' = bufs
           /\ o_sent' = [o_sent EXCEPT ![idx] = @ + n]
           /\ o_nfrag' = [o_nfrag EXCEPT ![idx] = IF n > 0 THEN @ + 1 ELSE @]
           /\ IF MayEmit(idx, emitted, bufs) /\ ~Raised(args_obj)
              THEN /\ emitted' = emitted \cup {idx}
                   /\ o_events' = Append(o_events,
                          [idx |-> idx,
                           buffer |-> bufs[idx],
                           chunk |-> [type |-> "tool_call",
                                      id |-> Get(ids, idx, "call_" \o ToString(idx)),
                                      name |-> Get(names, idx, "unknown_tool_" \o ToString(idx)),
                                      arguments |-> args_obj.value]])
              ELSE UNCHANGED <<emitted, o_events>>
    /\ UNCHANGED <<run_vars, adapter_vars, handler_vars, classifier_vars, context_vars,
                   rest_vars, o_full>>

OpenAIStreamNext ==
    \E idx \in Indexes, n \in 0..MaxFragment, id \in DeltaIds, name \in DeltaNames :
        ToolCallDelta(idx, n, id, name)

\* ------------------------------------------------------------------------
\* analyze_error called on error texts
\* ------------------------------------------------------------------------
\* the longest error text, in tokens
MaxTextLen == 4

\* the tokens of the error texts
Vocabulary ==
    << "429", "400", "401", "403", "422", "503",
       "rate_limit_exceeded", "RATE_LIMIT_EXCEEDED",
       "token", "tokens", "tokens per min",
       "context", "CONTEXT", "window", "maximum context length",
       "timeout", "TPM", "rpm",
       "try again in 20s", "Try again in 7s", "boom" >>

\* the selections of up to n tokens of the vocabulary, as increasing indexes
RECURSIVE Selections(_)
Selections(n) ==
    IF n = 0 THEN {<<>>}
    ELSE LET shorter == Selections(n - 1) IN
         shorter \cup
         UNION {{Append(sel, k) :
                    k \in (IF sel = <<>> THEN 1 ELSE sel[Len(sel)] + 1)..Len(Vocabulary)} :
                sel \in shorter}

Reverse(text) == [i \in 1..Len(text) |-> text[Len(text) + 1 - i]]

\* str(error): tokens of the vocabulary, each at most once, in the order of
\* the vocabulary or in the opposite order
ErrorStrings ==
    LET texts == {[i \in 1..Len(sel) |-> Vocabulary[sel[i]]] :
                     sel \in Selections(MaxTextLen)}
    IN  texts \cup {Reverse(text) : text \in texts}

ClassifierIdle == c_error = <<>> /\ c_analysis = <<>>

ClassifierInit == c_error \in ErrorStrings /\ c_analysis = <<>>

\* analysis = self.analyze_error(error)
Analyze ==
    /\ c_analysis = <<>>
    /\ c_analysis' = <<AnalyzeError(c_error)>>
    /\ UNCHANGED <<run_vars, adapter_vars, handler_vars, openai_vars, context_vars,
                   rest_vars, c_error>>

ClassifierNext == Analyze

\* ------------------------------------------------------------------------
\* The context manager (context_manager.py)
\*
\* A message is a record with role and content.  A returned list is a record
\* with the list and whether it is the list object that was passed in.
\* target_reduction is given in tenths.
\* ------------------------------------------------------------------------
\* the most messages in a caller's list, and the most system messages
MaxMessages == 12
MaxSystem == 2

\* "0123" * 60_000
BigContent == "0123 x 60000"

\* f"message {idx}"
MessageContent(idx) == "message " \o ToString(idx)

\* len(content)
StrLen(content) ==
    IF content = BigContent THEN 240000
    ELSE IF content \in {MessageContent(idx) : idx \in 0..9} THEN 9
    ELSE 10

\* estimate_tokens, lines 35-41: 50 for every tool call, whose arguments
\* ("{}") add nothing
ToolCallTokens(msg) ==
    IF "tool_calls" \in DOMAIN msg THEN 50 * Len(msg.tool_calls) ELSE 0

\* estimate_tokens, for messages with text content
RECURSIVE EstimateTokens(_)
EstimateTokens(msgs) ==
    IF msgs = <<>> THEN 0
    ELSE StrLen(Head(msgs).content) \div 4 + ToolCallTokens(Head(msgs))
         + EstimateTokens(Tail(msgs))

\* the error texts a caller passes, and the terms error_str.lower() contains
PruneErrors ==
    {"", "token limit hit", "context overflow", "misc failure", "Request TOO LARGE"}

TermsIn(error_str) ==
    CASE error_str = "token limit hit" -> {"token", "limit"}
      [] error_str = "context overflow" -> {"context"}
      [] error_str = "Request TOO LARGE" -> {"too large"}
      [] error_str = "400 maximum context length" ->
             {"context", "maximum context length"}
      [] OTHER -> {}

PruneTerms == {"context", "token", "too large", "maximum context length", "limit"}

\* should_prune_context
ContextShouldPrune(msgs, error_str, max_messages) ==
    \/ TermsIn(error_str) \cap PruneTerms # {}
    \/ Len(msgs) > max_messages
    \/ EstimateTokens(msgs) > 50000

IsSystem(msg) == msg.role = "system"
NotSystem(msg) == msg.role # "system"

SameObject(msgs) == [same_object |-> TRUE, messages |-> msgs]
NewList(msgs) == [same_object |-> FALSE, messages |-> msgs]

\* seq[-n:] for n >= 0
LastSlice(seq, n) ==
    IF n = 0 \/ n >= Len(seq) THEN seq
    ELSE SubSeq(seq, Len(seq) - n + 1, Len(seq))

\* int(current_count * (1.0 - target_reduction)); the floating-point
\* product truncates to this for the reductions 0.0, 0.3, 0.5 and 0.7 and
\* every count below 90
Truncated(current_count, target_reduction) ==
    (current_count * (10 - target_reduction)) \div 10

\* a pruner that keeps the oldest messages
MutKeep(non_system_messages, target_count) ==
    SubSeq(non_system_messages, 1, target_count)

\* non_system_messages[-target_count:]
Keep(non_system_messages, target_count) ==
    LastSlice(non_system_messages, target_count)

\* max(self.preserve_recent_messages, int(current_count * (1.0 - target_reduction)))
TargetCount(current_count, target_reduction, preserve) ==
    Max(preserve, Truncated(current_count, target_reduction))

\* a pruner that rebuilds the list even when nothing is to be removed
MutNoPruning(msgs) ==
    NewList(SelectSeq(msgs, IsSystem) \o SelectSeq(msgs, NotSystem))

\* return messages  # No pruning needed
NoPruning(msgs) == SameObject(msgs)

\* prune_messages
PruneMessages(msgs, target_reduction, preserve) ==
    LET system_messages == SelectSeq(msgs, IsSystem)
        non_system_messages == SelectSeq(msgs, NotSystem)
        current_count == Len(non_system_messages)
        target_count == TargetCount(current_count, target_reduction, preserve)
    IN  IF msgs = <<>> THEN SameObject(msgs)
        ELSE IF non_system_messages = <<>> THEN SameObject(msgs)
        ELSE IF target_count >= current_count THEN NoPruning(msgs)
        ELSE NewList(system_messages \o Keep(non_system_messages, target_count))

\* prune_for_error
PruneForError(msgs, error_str, preserve) ==
    IF "token" \in TermsIn(error_str) \/ "too large" \in TermsIn(error_str)
    THEN PruneMessages(msgs, 7, preserve)
    ELSE IF "context" \in TermsIn(error_str)
    THEN PruneMessages(msgs, 5, preserve)
    ELSE PruneMessages(msgs, 3, preserve)

\* create_context_summary
CreateContextSummary(msgs) ==
    [role |-> "system",
     content |-> "[Previous conversation context with "
                 \o ToString(Len(SelectSeq(msgs, NotSystem)))
                 \o " messages was summarized to manage token limits. Key points from the conversation are preserved in this session.]"]

\* an adaptive pruner that puts the summary first
MutWithSummary(pruned, summary_msg) ==
    <<summary_msg>> \o SelectSeq(pruned, IsSystem) \o SelectSeq(pruned, NotSystem)

\* system_messages + [summary_msg] + other_messages
WithSummary(pruned, summary_msg) ==
    SelectSeq(pruned, IsSystem) \o <<summary_msg>> \o SelectSeq(pruned, NotSystem)

\* adaptive_prune_with_summary
AdaptivePruneWithSummary(msgs, error_str, preserve, max_messages) ==
    IF ~ContextShouldPrune(msgs, error_str, max_messages)
    THEN SameObject(msgs)
    ELSE NewList(WithSummary(PruneForError(msgs, error_str, preserve).messages,
                             CreateContextSummary(msgs)))

\* the reductions prune_messages is called with
TargetReductions == {0, 3, 5, 7}

\* the caller's lists: message idx is a system message at the chosen
\* positions, and of the other messages the first has the role user, the
\* second assistant, and so on
Role(idx, system_at) ==
    IF idx \in system_at THEN "system"
    ELSE IF Cardinality({i \in 1..idx : i \notin system_at}) % 2 = 1 THEN "user"
    ELSE "assistant"

BuildMessages(count, system_at) ==
    [idx \in 1..count |->
        [role |-> Role(idx, system_at), content |-> MessageContent(idx - 1)]]

MessageLists ==
    {BuildMessages(count, system_at) :
        count \in 0..MaxMessages,
        system_at \in {at \in SUBSET (1..MaxMessages) : Cardinality(at) <= MaxSystem}}
    \cup {<<[role |-> "user", content |-> BigContent]>>}

ContextIdle ==
    /\ preserve_recent_messages = 10
    /\ max_context_messages = 50
    /\ p_messages = <<>>
    /\ p_call = <<>>
    /\ p_result = <<>>

\* ContextManager() with its defaults, or with the limits lowered as the
\* tests lower them
ContextInit ==
    /\ preserve_recent_messages \in {2, 10}
    /\ max_context_messages \in {1, 50}
    /\ p_messages \in MessageLists
    /\ p_call = <<>>
    /\ p_result = <<>>

\* a history of turns with tool calls: turn k is the user's message, the
\* assistant message that calls a tool and the tool message with the result
MaxTurns == 4
ToolTurn(k) ==
    <<[role |-> "user", content |-> MessageContent(k)],
      [role |-> "assistant", content |-> "",
       tool_calls |-> <<[id |-> "c" \o ToString(k), type |-> "function",
                         function |-> [name |-> "t", arguments |-> "{}"]]>>],
      [role |-> "tool", tool_call_id |-> "c" \o ToString(k), content |-> "r"]>>

RECURSIVE ToolTurns(_)
ToolTurns(n) == IF n = 0 THEN <<>> ELSE ToolTurns(n - 1) \o ToolTurn(n)

ToolHistories ==
    {prefix \o ToolTurns(n) :
        n \in 1..MaxTurns,
        prefix \in {<<>>, <<[role |-> "system", content |-> MessageContent(0)]>>}}

\* a ContextManager and a history with tool calls
ToolHistoryInit ==
    /\ preserve_recent_messages \in {2, 4, 10}
    /\ max_context_messages \in {3, 50}
    /\ p_messages \in ToolHistories
    /\ p_call = <<>>
    /\ p_result = <<>>

Call(op, target_reduction, error_str) ==
    [op |-> op, target_reduction |-> target_reduction, error_str |-> error_str]

PruneMessagesCall(target_reduction) ==
    /\ p_call = <<>>
    /\ p_call' = <<Call("prune_messages", Some(target_reduction), "")>>
    /\ p_result' = <<PruneMessages(p_messages, target_reduction,
                                    preserve_recent_messages)>>
    /\ UNCHANGED <<run_vars, adapter_vars, handler_vars, openai_vars, classifier_vars, rest_vars,
                   preserve_recent_messages, max_context_messages, p_messages>>

PruneForErrorCall(error_str) ==
    /\ p_call = <<>>
    /\ p_call' = <<Call("prune_for_error", NoneInt, error_str)>>
    /\ p_result' = <<PruneForError(p_messages, error_str, preserve_recent_messages)>>
    /\ UNCHANGED <<run_vars, adapter_vars, handler_vars, openai_vars, classifier_vars, rest_vars,
                   preserve_recent_messages, max_context_messages, p_messages>>

AdaptivePruneCall(error_str) ==
    /\ p_call = <<>>
    /\ p_call' = <<Call("adaptive_prune_with_summary", NoneInt, error_str)>>
    /\ p_result' = <<AdaptivePruneWithSummary(p_messages, error_str,
                         preserve_recent_messages, max_context_messages)>>
    /\ UNCHANGED <<run_vars, adapter_vars, handler_vars, openai_vars, classifier_vars, rest_vars,
                   preserve_recent_messages, max_context_messages, p_messages>>

ContextNext ==
    \/ \E target_reduction \in TargetReductions : PruneMessagesCall(target_reduction)
    \/ \E error_str \in PruneErrors : PruneForErrorCall(error_str)
    \/ \E error_str \in PruneErrors : AdaptivePruneCall(error_str)

\* ------------------------------------------------------------------------
\* The parallel_run tool (tools/parallel.py)
\* ------------------------------------------------------------------------
\* the most tasks of one call
MaxTasks == 3

\* tasks holds ParallelTask objects when parallel_run is called directly, and
\* the dicts of the tool call's arguments when execute_tool calls it with
\* registered.func(**arguments)
TaskForms == {"ParallelTask", "dict"}

\* a task names a registered tool that returns or raises, or no tool
Tasks ==
    { [tool |-> "t", outcome |-> "returns"],
      [tool |-> "t", outcome |-> "raises"],
      [tool |-> "missing", outcome |-> "returns"] }

RECURSIVE TaskLists(_)
TaskLists(n) ==
    IF n = 0 THEN {<<>>}
    ELSE LET shorter == TaskLists(n - 1) IN
         shorter \cup {Append(tasks, task) : tasks \in shorter, task \in Tasks}

ParallelIdle ==
    /\ pr_form = "ParallelTask"
    /\ pr_tasks = <<>>
    /\ pr_results = <<>>
    /\ pr_return = <<>>

\* coros = [run_one(task) for task in tasks]
ParallelInit ==
    /\ pr_form \in TaskForms
    /\ pr_tasks \in TaskLists(MaxTasks)
    /\ pr_results = [i \in 1..Len(pr_tasks) |-> NotYet]
    /\ pr_return = <<>>

\* run_one(task): task.tool is an AttributeError on a dict
RunOne(form, task, i) ==
    IF form = "dict" THEN [error |-> <<"'dict' object has no attribute 'tool'">>]
    ELSE LET r == ExecuteTool(task.tool, <<>>, task.outcome, i)
         IN  IF Raised(r) THEN [error |-> r.raised] ELSE r

\* one of the coroutines gather runs comes to its end
RunOneEnds(i) ==
    /\ pr_return = <<>>
    /\ i \in 1..Len(pr_tasks)
    /\ pr_results[i] = NotYet
    /\ pr_results' = [pr_results EXCEPT ![i] = RunOne(pr_form, pr_tasks[i], i)]
    /\ UNCHANGED <<run_vars, adapter_vars, handler_vars, openai_vars, classifier_vars,
                   context_vars, mcp_vars, flow_vars, tail_vars, pr_form, pr_tasks, pr_return>>

\* return await asyncio.gather(*coros, return_exceptions=False)
GatherReturns ==
    /\ pr_return = <<>>
    /\ \A i \in 1..Len(pr_tasks) : pr_results[i] # NotYet
    /\ pr_return' =
           IF \E i \in 1..Len(pr_tasks) : Raised(pr_results[i])
           THEN <<Raise(<<"exception of a task">>)>>
           ELSE <<[list |-> pr_results]>>
    /\ UNCHANGED <<run_vars, adapter_vars, handler_vars, openai_vars, classifier_vars,
                   context_vars, mcp_vars, flow_vars, tail_vars, pr_form, pr_tasks, pr_results>>

ParallelNext ==
    \/ \E i \in 1..MaxTasks : RunOneEnds(i)
    \/ GatherReturns

\* ------------------------------------------------------------------------
\* Tool execution with an MCP manager (engine.py, mcp/client.py)
\* ------------------------------------------------------------------------
\* the most clients of a manager
MaxClients == 2

\* the names a manager advertises: "t" is also in the local registry
McpToolNames == {"t", "m"}

\* client.call_tool returns or raises
ClientEnds == {"returns", "raises"}

RECURSIVE ClientLists(_)
ClientLists(n) ==
    IF n = 0 THEN {<<>>}
    ELSE LET shorter == ClientLists(n - 1) IN
         shorter \cup {Append(clients, c) : clients \in shorter, c \in ClientEnds}

McpManagers ==
    {PyNone} \cup
    {[tools |-> tools, clients |-> clients] :
        tools \in SUBSET McpToolNames, clients \in ClientLists(MaxClients)}

\* McpManager.execute: the clients called and the result or the KeyError
RECURSIVE McpExecuteFrom(_, _, _)
McpExecuteFrom(clients, name, i) ==
    IF i > Len(clients)
    THEN [called |-> Len(clients),
          res |-> Raise(<<"MCP tool", name, "failed on all clients",
                          ". Last error:", "Client error">>)]
    ELSE IF clients[i] = "returns"
    THEN [called |-> i, res |-> [result |-> <<"mcp", name, ToString(i)>>]]
    ELSE McpExecuteFrom(clients, name, i + 1)

McpExecute(manager, name) ==
    IF manager.clients = <<>>
    THEN [called |-> 0, res |-> Raise(<<"No MCP clients available for tool:", name>>)]
    ELSE McpExecuteFrom(manager.clients, name, 1)

\* an engine that hands every tool call to the manager
MutAdvertised(manager, name) == manager # PyNone

\* self.mcp_manager and any(t["name"] == name for t in self.mcp_manager.tool_specs())
Advertised(manager, name) ==
    IF manager = PyNone THEN FALSE ELSE name \in manager.tools

\* _execute_tool_internal: the calls it makes and what it returns
ExecuteToolInternalMcp(manager, name, args, outcome) ==
    LET local == LET r == ExecuteTool(name, args, outcome, 1)
                 IN  IF Raised(r) THEN [error |-> r.raised] ELSE r
    IN  IF Advertised(manager, name)
        THEN LET remote == McpExecute(manager, name)
             IN  IF Raised(remote.res)
                 THEN [calls |-> <<"mcp_manager.execute", "execute_tool">>,
                       clients_called |-> remote.called,
                       returned |-> local]
                 ELSE [calls |-> <<"mcp_manager.execute">>,
                       clients_called |-> remote.called,
                       returned |-> remote.res]
        ELSE [calls |-> <<"execute_tool">>, clients_called |-> 0, returned |-> local]

McpIdle ==
    /\ mcp_manager = PyNone
    /\ m_name = "t"
    /\ m_outcome = "returns"
    /\ m_calls = <<>>
    /\ m_result = <<>>

McpInit ==
    /\ mcp_manager \in McpManagers
    /\ m_name \in McpToolNames \cup {"missing"}
    /\ m_outcome \in {"returns", "raises"}
    /\ m_calls = <<>>
    /\ m_result = <<>>

\* await self._execute_tool_internal(name, args)
ExecuteToolInternalCall ==
    /\ m_result = <<>>
    /\ LET done == ExecuteToolInternalMcp(mcp_manager, m_name, [a |-> "1"], m_outcome)
       IN  /\ m_calls' = done.calls
           /\ m_result' = <<done.returned>>
    /\ UNCHANGED <<run_vars, adapter_vars, handler_vars, openai_vars, classifier_vars,
                   context_vars, parallel_vars, flow_vars, tail_vars, mcp_manager, m_name, m_outcome>>

McpNext == ExecuteToolInternalCall

\* ------------------------------------------------------------------------
\* The message lists of a streaming call (openai_provider.py, lines 47-124)
\*
\* A list object is an index of f_heap.  The caller's list is object 1.
\* ------------------------------------------------------------------------
\* str(e) of the errors of ErrorTexts the vendor call fails with here
StrOf(error_str) ==
    CASE error_str = <<"400", "maximum context length">> -> "400 maximum context length"
      [] error_str = <<"422">> -> "422"
      [] error_str = <<"Connection", "lost">> -> "Connection lost"
      [] OTHER -> "401"

FlowErrors ==
    {<<"400", "maximum context length">>, <<"422">>, <<"Connection", "lost">>, <<"401">>}

\* the caller's lists
FlowLists ==
    {BuildMessages(count, system_at) :
        count \in {2, MaxMessages}, system_at \in {{}, {1}, {3}}}

\* self.cfg.system_prompt
SystemPrompt == [role |-> "system", content |-> "system prompt"]

\* lines 57-64: msgs = list(original_messages), with the system prompt in
\* front if no message has the role system
BuildMsgs(original_messages) ==
    IF \E i \in 1..Len(original_messages) : IsSystem(original_messages[i])
    THEN original_messages
    ELSE <<SystemPrompt>> \o original_messages

\* a pruner that works on the list it was given
MutStorePruned(heap, orig, pruned) ==
    [heap |-> [heap EXCEPT ![orig] = pruned.messages], id |-> orig]

\* pruned_messages: the list object adaptive_prune_with_summary returned
StorePruned(heap, orig, pruned) ==
    IF pruned.same_object THEN [heap |-> heap, id |-> orig]
    ELSE [heap |-> Append(heap, pruned.messages), id |-> Len(heap) + 1]

FlowIdle ==
    /\ f_heap = <<>>
    /\ f_snapshot = <<>>
    /\ f_pc = "idle"
    /\ f_orig = 1
    /\ f_retry = 0
    /\ f_msgs = <<>>

FlowInit ==
    /\ f_heap \in {<<list>> : list \in FlowLists}
    /\ f_snapshot = <<>>
    /\ f_pc = "idle"
    /\ f_orig = 1
    /\ f_retry = 0
    /\ f_msgs = <<>>

\* run_stream(messages) passes the caller's list to completions_stream
FlowRunStream ==
    /\ f_pc = "idle"
    /\ f_snapshot' = f_heap[1]
    /\ f_orig' = 1
    /\ f_retry' = 0
    /\ f_pc' = "call"
    /\ UNCHANGED <<f_heap, f_msgs>>
    /\ UNCHANGED <<run_vars, adapter_vars, handler_vars, openai_vars, classifier_vars,
                   context_vars, parallel_vars, mcp_vars, tail_vars>>

\* lines 76-124: the vendor call fails; the except block retries with the
\* pruned list, retries with the same list, or gives up
FlowCallFails(error_str) ==
    /\ f_pc = "call"
    /\ f_msgs' = BuildMsgs(f_heap[f_orig])
    /\ IF ShouldPruneContext(error_str) /\ MayPruneRetry(f_retry)
       THEN LET pruned == AdaptivePruneWithSummary(f_heap[f_orig], StrOf(error_str),
                              preserve_recent_messages, max_context_messages)
                stored == StorePruned(f_heap, f_orig, pruned)
            IN  /\ f_heap' = stored.heap
                /\ f_orig' = stored.id
                /\ f_retry' = f_retry + 1
                /\ UNCHANGED f_pc
       ELSE IF MayHandlerRetry(AnalyzeError(error_str), f_retry)
       THEN /\ f_retry' = f_retry + 1
            /\ UNCHANGED <<f_heap, f_orig, f_pc>>
       ELSE /\ f_pc' = "done"
            /\ UNCHANGED <<f_heap, f_orig, f_retry>>
    /\ UNCHANGED f_snapshot
    /\ UNCHANGED <<run_vars, adapter_vars, handler_vars, openai_vars, classifier_vars,
                   context_vars, parallel_vars, mcp_vars, tail_vars>>

\* the vendor call and its stream succeed: run_stream yields the
\* append_message event of the assistant message
FlowCallSucceeds ==
    /\ f_pc = "call"
    /\ f_msgs' = BuildMsgs(f_heap[f_orig])
    /\ f_pc' = "apply"
    /\ UNCHANGED <<f_heap, f_snapshot, f_orig, f_retry>>
    /\ UNCHANGED <<run_vars, adapter_vars, handler_vars, openai_vars, classifier_vars,
                   context_vars, parallel_vars, mcp_vars, tail_vars>>

\* the caller appends the message of the event to its list
\* (ui/conversation.py, line 205)
FlowCallerAppends ==
    /\ f_pc = "apply"
    /\ f_heap' = [f_heap EXCEPT ![1] = Append(@, [role |-> "assistant", content |-> "a"])]
    /\ f_pc' = "done"
    /\ UNCHANGED <<f_snapshot, f_orig, f_retry, f_msgs>>
    /\ UNCHANGED <<run_vars, adapter_vars, handler_vars, openai_vars, classifier_vars,
                   context_vars, parallel_vars, mcp_vars, tail_vars>>

FlowNext ==
    \/ FlowRunStream
    \/ \E error_str \in FlowErrors : FlowCallFails(error_str)
    \/ FlowCallSucceeds
    \/ FlowCallerAppends

\* ------------------------------------------------------------------------
\* Tool functions under the timeout (engine.py, lines 206-215;
\* tools/registry.py, lines 106-114)
\*
\* A registered function performs `needs` steps and returns.  An async
\* function runs as a coroutine under wait_for; a sync function runs in a
\* thread of the default executor and wait_for awaits its future.
\* ------------------------------------------------------------------------
NumExecTools == 2
MaxSteps == 2
ExecTools == [is_async : BOOLEAN, needs : 1..MaxSteps]
ExecToolLists == [1..NumExecTools -> ExecTools]

\* may the function go on?  wait_for cancels what it awaits on timeout:
\* a coroutine gets CancelledError at its await, a thread of the executor
\* is not interrupted (a future that is running cannot be cancelled)
MayStep(task, wait) == wait = "awaiting" \/ ~task.is_async

ExecIdle ==
    /\ x_tools = <<>>
    /\ x_steps = <<>>
    /\ x_wait = <<>>
    /\ x_results = <<>>

\* gather has started the tasks of a round
ExecInit ==
    /\ x_tools \in ExecToolLists
    /\ x_steps = [i \in 1..NumExecTools |-> 0]
    /\ x_wait = [i \in 1..NumExecTools |-> "awaiting"]
    /\ x_results = [i \in 1..NumExecTools |-> NotYet]

\* the function of the i-th call performs a step; with its last step it
\* returns, and wait_for passes the result on if it still awaits it
FuncStep(i) ==
    /\ x_steps[i] < x_tools[i].needs
    /\ MayStep(x_tools[i], x_wait[i])
    /\ x_steps' = [x_steps EXCEPT ![i] = @ + 1]
    /\ IF x_steps[i] + 1 = x_tools[i].needs /\ x_wait[i] = "awaiting"
       THEN /\ x_wait' = [x_wait EXCEPT ![i] = "returned"]
            /\ x_results' = [x_results EXCEPT ![i] = [result |-> <<"t", ToString(i)>>]]
       ELSE UNCHANGED <<x_wait, x_results>>
    /\ UNCHANGED x_tools
    /\ UNCHANGED <<run_vars, adapter_vars, handler_vars, openai_vars, classifier_vars,
                   context_vars, parallel_vars, mcp_vars, flow_vars, ui_vars, late_vars>>

\* lines 209-215: the timeout of the i-th wait_for expires before the
\* function has returned
TimeoutExpires(i) ==
    /\ x_wait[i] = "awaiting"
    /\ x_wait' = [x_wait EXCEPT ![i] = "timeout"]
    /\ x_results' = [x_results EXCEPT ![i] = [error |-> <<"Tool", "t", "execution timed out">>]]
    /\ UNCHANGED <<x_tools, x_steps>>
    /\ UNCHANGED <<run_vars, adapter_vars, handler_vars, openai_vars, classifier_vars,
                   context_vars, parallel_vars, mcp_vars, flow_vars, ui_vars, late_vars>>

ExecNext ==
    \/ \E i \in 1..NumExecTools : FuncStep(i)
    \/ \E i \in 1..NumExecTools : TimeoutExpires(i)

\* ------------------------------------------------------------------------
\* The auto-round loop (ui/conversation.py, lines 51-114 and 207-237;
\* ui/app.py, lines 1237-1429 is the same loop)
\* ------------------------------------------------------------------------
\* the largest /rounds argument used here (the default of max_rounds is 15)
MaxRounds == 4
RoundsArgs == 0..MaxRounds

\* the notice _handle_round_limit appends before the final round
\* (ui/conversation.py, lines 208-215)
LimitNotice ==
    [role |-> "user",
     content |-> <<"[SYSTEM]", "You have reached the maximum number of tool-calling rounds",
                   "Please provide a final response without using any more tools.">>]

\* the messages of the append_message events of the k-th run_stream call of
\* a prompt: the assistant message and, in a round with tool calls, the
\* tool message (engine.py, lines 168-188)
RoundAppends(had, k) ==
    <<[role |-> "assistant", content |-> <<"answer", ToString(k)>>]>>
    \o (IF had
        THEN <<[role |-> "tool", tool_call_id |-> "c" \o ToString(k),
                content |-> <<"r">>]>>
        ELSE <<>>)

UiIdle ==
    /\ auto_continue = TRUE
    /\ max_rounds = 15
    /\ u_pc = "idle"
    /\ rounds = 0
    /\ had_tools_this_round = FALSE
    /\ u_calls = 0
    /\ u_emitted = <<>>
    /\ u_appended = <<>>

\* ChatApp.__init__ with the configuration the commands have saved
UiInit ==
    /\ auto_continue \in BOOLEAN
    /\ max_rounds \in 1..MaxRounds
    /\ u_pc = "idle"
    /\ rounds = 0
    /\ had_tools_this_round = FALSE
    /\ u_calls = 0
    /\ u_emitted = <<>>
    /\ u_appended = <<>>

UiUnchanged ==
    UNCHANGED <<run_vars, adapter_vars, handler_vars, openai_vars, classifier_vars,
                context_vars, parallel_vars, mcp_vars, flow_vars, exec_vars, late_vars>>

\* /auto on|off, between prompts
CmdAuto(value) ==
    /\ u_pc = "idle"
    /\ auto_continue' = (value = "on")
    /\ UNCHANGED <<max_rounds, u_pc, rounds, had_tools_this_round, u_calls,
                   u_emitted, u_appended>>
    /\ UiUnchanged

\* /rounds <n>, between prompts
CmdRounds(n) ==
    /\ u_pc = "idle"
    /\ max_rounds' = Max(1, n)
    /\ UNCHANGED <<auto_continue, u_pc, rounds, had_tools_this_round, u_calls,
                   u_emitted, u_appended>>
    /\ UiUnchanged

\* worker: a prompt is taken from the queue and run_auto_rounds starts
RunAutoRounds ==
    /\ u_pc = "idle"
    /\ rounds' = 0
    /\ u_calls' = 0
    /\ had_tools_this_round' = FALSE
    /\ u_pc' = "top"
    /\ u_emitted' = <<>>
    /\ u_appended' = <<>>
    /\ UNCHANGED <<auto_continue, max_rounds>>
    /\ UiUnchanged

\* lines 54-55: if not self.app.auto_continue and rounds > 0: break
LeaveAtTop(auto, n) == ~auto /\ n > 0

\* lines 53-76: the top of the loop, up to the call of run_stream
LoopTop ==
    /\ u_pc = "top"
    /\ IF LeaveAtTop(auto_continue, rounds)
       THEN /\ u_pc' = "done"
            /\ UNCHANGED <<had_tools_this_round, u_calls>>
       ELSE /\ had_tools_this_round' = FALSE
            /\ u_calls' = u_calls + 1
            /\ u_pc' = "round"
    /\ UNCHANGED <<auto_continue, max_rounds, rounds, u_emitted, u_appended>>
    /\ UiUnchanged

\* lines 76-105: the loop over the events of the round, which appends the
\* message of each append_message event (_handle_append_message, line 205),
\* up to the round_complete event, and the tests after the loop
RoundCompleteSeen(had) ==
    /\ u_pc = "round"
    /\ u_emitted' = u_emitted \o RoundAppends(had, u_calls)
    /\ u_appended' = u_appended \o RoundAppends(had, u_calls)
    /\ had_tools_this_round' = had
    /\ rounds' = rounds + 1
    /\ IF ~had
       THEN u_pc' = "done"
       ELSE IF rounds + 1 >= max_rounds
       THEN u_pc' = "limit"
       ELSE u_pc' = "top"
    /\ UNCHANGED <<auto_continue, max_rounds, u_calls>>
    /\ UiUnchanged

\* lines 207-222: _handle_round_limit appends its notice and calls
\* run_stream once more
HandleRoundLimit ==
    /\ u_pc = "limit"
    /\ u_calls' = u_calls + 1
    /\ u_pc' = "final"
    /\ u_appended' = Append(u_appended, LimitNotice)
    /\ UNCHANGED <<auto_continue, max_rounds, rounds, had_tools_this_round, u_emitted>>
    /\ UiUnchanged

\* lines 222-237: the loop over the events of the final round handles the
\* text and round_complete events only; then run_auto_rounds returns
FinalRoundEnds ==
    /\ u_pc = "final"
    /\ u_pc' = "done"
    /\ \E had \in BOOLEAN : u_emitted' = u_emitted \o RoundAppends(had, u_calls)
    /\ UNCHANGED <<auto_continue, max_rounds, rounds, had_tools_this_round, u_calls,
                   u_appended>>
    /\ UiUnchanged

\* lines 44-50: run_auto_rounds has returned; the worker waits for the next
\* prompt
WorkerWaits ==
    /\ u_pc = "done"
    /\ u_pc' = "idle"
    /\ UNCHANGED <<auto_continue, max_rounds, rounds, had_tools_this_round, u_calls,
                   u_emitted, u_appended>>
    /\ UiUnchanged

UiNext ==
    \/ \E value \in {"on", "off"} : CmdAuto(value)
    \/ \E n \in RoundsArgs : CmdRounds(n)
    \/ RunAutoRounds
    \/ LoopTop
    \/ \E had \in BOOLEAN : RoundCompleteSeen(had)
    \/ HandleRoundLimit
    \/ FinalRoundEnds
    \/ WorkerWaits

\* ------------------------------------------------------------------------
\* The todo tools (tools/todo.py, todo_store.py)
\* ------------------------------------------------------------------------
MaxTodos == 3
TodoItems == {"a", "b"}
\* the index arguments of todo_remove and todo_edit
TodoIndexes == (0 - 2)..(MaxTodos + 1)
NoTodoCall == [op |-> "none"]

TodoIdle == todos = <<>> /\ t_last = NoTodoCall

TodoInit == todos = <<>> /\ t_last = NoTodoCall

\* _todos.pop(index) for a 0-based index of the list
Pop(list, index) ==
    [k \in 1..(Len(list) - 1) |-> IF k <= index THEN list[k] ELSE list[k + 1]]

\* todo_store.remove_todo(index): the list after the call and what is returned
RemoveTodo(list, index) ==
    IF 0 <= index /\ index < Len(list)
    THEN [list |-> Pop(list, index), returned |-> TRUE]
    ELSE [list |-> list, returned |-> FALSE]

\* todo_store.set_todo(index, item)
SetTodo(list, index, item) ==
    IF 0 <= index /\ index < Len(list)
    THEN [list |-> [list EXCEPT ![index + 1] = item], returned |-> TRUE]
    ELSE [list |-> list, returned |-> FALSE]

\* the index the tools pass to the store: max(0, index - 1)
StoreIndex(index) == Max(0, index - 1)

\* todo_add(item)
TodoAdd(item) ==
    /\ Len(todos) < MaxTodos
    /\ todos' = Append(todos, item)
    /\ t_last' = [op |-> "todo_add", item |-> item, before |-> todos, returned |-> item]
    /\ UNCHANGED <<run_vars, adapter_vars, handler_vars, openai_vars, classifier_vars,
                   context_vars, parallel_vars, mcp_vars, flow_vars, exec_vars, ui_vars,
                   tools_vars>>

\* todo_remove(index)
TodoRemove(index) ==
    /\ LET r == RemoveTodo(todos, StoreIndex(index))
       IN  /\ todos' = r.list
           /\ t_last' = [op |-> "todo_remove", index |-> index, before |-> todos,
                         returned |-> r.returned]
    /\ UNCHANGED <<run_vars, adapter_vars, handler_vars, openai_vars, classifier_vars,
                   context_vars, parallel_vars, mcp_vars, flow_vars, exec_vars, ui_vars,
                   tools_vars>>

\* todo_edit(index, item)
TodoEdit(index, item) ==
    /\ LET r == SetTodo(todos, StoreIndex(index), item)
       IN  /\ todos' = r.list
           /\ t_last' = [op |-> "todo_edit", index |-> index, item |-> item,
                         before |-> todos, returned |-> r.returned]
    /\ UNCHANGED <<run_vars, adapter_vars, handler_vars, openai_vars, classifier_vars,
                   context_vars, parallel_vars, mcp_vars, flow_vars, exec_vars, ui_vars,
                   tools_vars>>

TodoNext ==
    \/ \E item \in TodoItems : TodoAdd(item)
    \/ \E index \in TodoIndexes : TodoRemove(index)
    \/ \E index \in TodoIndexes, item \in TodoItems : TodoEdit(index, item)

\* ------------------------------------------------------------------------
\* The tool selection (engine.py, lines 56-64; ui/command_processor.py,
\* lines 206-229)
\* ------------------------------------------------------------------------
\* the names /tools enable and /tools disable are given
ToolNames == {"t", "u"}

\* run_stream, lines 56-61: the names of the specs passed to the provider
OfferedTools(enabled) ==
    IF enabled = NoneInt THEN Registry ELSE Registry \cap enabled[1]

\* /tools enable <name>, typed before the prompt is sent
CmdToolsEnable(name) ==
    /\ pc = "idle"
    /\ enabled_tools' = IF enabled_tools = NoneInt THEN Some({name})
                        ELSE Some(enabled_tools[1] \cup {name})
    /\ UNCHANGED <<run_vars, adapter_vars, handler_vars, openai_vars, classifier_vars,
                   context_vars, parallel_vars, mcp_vars, flow_vars, exec_vars, ui_vars,
                   todo_vars>>

\* /tools disable <name>, typed before the prompt is sent
CmdToolsDisable(name) ==
    /\ pc = "idle"
    /\ enabled_tools' = IF enabled_tools = NoneInt THEN Some(Registry \ {name})
                        ELSE Some(enabled_tools[1] \ {name})
    /\ UNCHANGED <<run_vars, adapter_vars, handler_vars, openai_vars, classifier_vars,
                   context_vars, parallel_vars, mcp_vars, flow_vars, exec_vars, ui_vars,
                   todo_vars>>

\* the provider streams of a session that uses /tools
ToolsStream ==
    { [type |-> "text", delta |-> <<"a">>],
      [type |-> "tool_call", id |-> "c1", name |-> "t", arguments |-> [a |-> "1"]],
      [type |-> "tool_call", id |-> "c2", name |-> "t", arguments |-> [a |-> "1"]] }

\* the /tools commands and the steps of a run_stream call
ToolsNext ==
    \/ \E name \in ToolNames : CmdToolsEnable(name)
    \/ \E name \in ToolNames : CmdToolsDisable(name)
    \/ RunStream(history)
    \/ ValidateMessages
    \/ \E chunk \in ToolsStream : StreamChunk(chunk)
    \/ StreamEnd
    \/ StreamRaise
    \/ \E i \in 1..Len(trun) : ToolStart(i)
    \/ \E i \in 1..Len(trun), dur \in Durations, outcome \in Outcomes :
           ToolFinish(i, dur, outcome)
    \/ EmitResult
    \/ BuildAssistant
    \/ AppendPending
    \/ RoundComplete

AdapterStep ==
    \/ CallSucceeds
    \/ \E error_str \in ErrorTexts : CallFails(error_str)
    \/ \E event \in StreamEvents : StreamYield(event)
    \/ \E error_str \in ErrorTexts : StreamFails(error_str)
    \/ StreamExhausted
    \/ HandleFailure

AdapterNext ==
    \/ \E l \in ListIds : CompletionsStream(l)
    \/ AdapterStep

\* ------------------------------------------------------------------------
\* Specifications
\* ------------------------------------------------------------------------
\* AgentEngine.__init__: enabled_tools = None
ToolsIdle == enabled_tools = NoneInt

LateIdle == TodoIdle /\ ToolsIdle
TailIdle == ExecIdle /\ UiIdle /\ LateIdle
RestIdle == ParallelIdle /\ McpIdle /\ FlowIdle /\ TailIdle

\* the engine with the OpenAI adapter, whose build_assistant_message and
\* format_tool_result_message it calls
Init ==
    /\ EngineInit /\ AdapterInit /\ a_self = "openai"
    /\ HandlerInit /\ OpenAIIdle /\ ClassifierIdle /\ ContextIdle /\ RestIdle

\* any of the adapters
AnyAdapterInit ==
    /\ EngineInit /\ AdapterInit /\ HandlerInit
    /\ OpenAIIdle /\ ClassifierIdle /\ ContextIdle /\ RestIdle

Next ==
    \/ \E limit \in LimitArgs : CmdParallelLimit(limit)
    \/ \E value \in {"on", "off"} : CmdParallel(value)
    \/ \E msgs \in {history} \cup MalformedInputs : RunStream(msgs)
    \/ ValidateMessages
    \/ \E chunk \in Chunks : StreamChunk(chunk)
    \/ StreamEnd
    \/ StreamRaise
    \/ \E i \in 1..Len(trun) : ToolStart(i)
    \/ \E i \in 1..Len(trun), dur \in Durations, outcome \in Outcomes :
           ToolFinish(i, dur, outcome)
    \/ EmitResult
    \/ BuildAssistant
    \/ AppendPending
    \/ RoundComplete

Spec == Init /\ [][Next]_vars

\* the engine in a session that also uses /timeout (run_stream never reads
\* tool_timeout, so Spec leaves the command out)
TimeoutNext ==
    \/ \E seconds \in TimeoutArgs : CmdTimeout(seconds)
    \/ Next

TimeoutSpec == Init /\ [][TimeoutNext]_vars

\* chunks of a provider stream of the OpenAI adapter whose first attempt
\* failed: chunks made from the vendor's events, and the [RECOVERY] and
\* [ERROR] text chunks of the adapter's except blocks
\* (openai_provider.py, lines 88-89, 106-107, 123)
DiagnosticStream ==
    { [type |-> "text", delta |-> <<"a">>],
      [type |-> "tool_call", id |-> "c1", name |-> "t", arguments |-> [a |-> "1"]],
      RecoveryEvent(<<"Connection", "lost">>),
      TextEvent(ErrorDelta("openai", "call", <<"401">>)) }

\* the engine behind an adapter that retries and reports failures
DiagnosticNext ==
    \/ RunStream(history)
    \/ ValidateMessages
    \/ \E chunk \in DiagnosticStream : StreamChunk(chunk)
    \/ StreamEnd
    \/ StreamRaise
    \/ \E i \in 1..Len(trun) : ToolStart(i)
    \/ \E i \in 1..Len(trun), dur \in Durations, outcome \in Outcomes :
           ToolFinish(i, dur, outcome)
    \/ EmitResult
    \/ BuildAssistant
    \/ AppendPending
    \/ RoundComplete

DiagnosticSpec == Init /\ [][DiagnosticNext]_vars

\* the engine in a session that uses /tools
ToolsSpec == Init /\ [][ToolsNext]_vars

\* the asyncio loop runs every task that is ready and the consumer keeps
\* iterating, so a step of the generator or of a tool task that stays
\* possible is taken; the provider yields, ends or raises
EngineStep ==
    \/ ValidateMessages
    \/ \E chunk \in Chunks : StreamChunk(chunk)
    \/ StreamEnd
    \/ StreamRaise
    \/ \E i \in 1..Len(trun) : ToolStart(i)
    \/ \E i \in 1..Len(trun), dur \in Durations, outcome \in Outcomes :
           ToolFinish(i, dur, outcome)
    \/ EmitResult
    \/ BuildAssistant
    \/ AppendPending
    \/ RoundComplete

FairSpec == Init /\ [][Next]_vars /\ WF_vars(EngineStep)

\* the history of the UI when the final round starts: a round with a tool
\* call has been applied and the notice appended
FinalRoundHistory ==
    LET call == [type |-> "tool_call", id |-> "c1", name |-> "t", arguments |-> [a |-> "1"]]
    IN  <<UserMessage,
          BuildAssistantMessage(<<>>, <<call>>),
          FormatToolResultMessage("c1", ResultStr(ExecuteToolSafely("t", call.arguments, 45, "returns", 1))),
          LimitNotice>>

FinalRoundInit ==
    /\ EngineCreated /\ history = FinalRoundHistory
    /\ AdapterInit /\ a_self = "openai"
    /\ HandlerInit /\ OpenAIIdle /\ ClassifierIdle /\ ContextIdle /\ RestIdle

\* the engine in the final round the UI runs at the round limit
FinalRoundSpec == FinalRoundInit /\ [][Next]_vars

\* an adapter on its own; the vendor answers every call and ends every stream
AdapterSpec == AnyAdapterInit /\ [][AdapterNext]_vars /\ WF_vars(AdapterStep)

\* the retry controller with callers of its own
HandlerSpec == Init /\ [][HandlerNext]_vars

\* the OpenAI adapter's stream loop fed with tool-call deltas
OpenAIStreamInitAll ==
    /\ EngineInit /\ AdapterInit /\ a_self = "openai"
    /\ HandlerInit /\ OpenAIStreamInit /\ ClassifierIdle /\ ContextIdle /\ RestIdle

\* analyze_error applied to error texts
ClassifierInitAll ==
    /\ EngineInit /\ AdapterInit /\ a_self = "openai"
    /\ HandlerInit /\ OpenAIIdle /\ ClassifierInit /\ ContextIdle /\ RestIdle

ClassifierSpec == ClassifierInitAll /\ [][ClassifierNext]_vars

\* the context manager called on message lists
ContextInitAll ==
    /\ EngineInit /\ AdapterInit /\ a_self = "openai"
    /\ HandlerInit /\ OpenAIIdle /\ ClassifierIdle /\ ContextInit /\ RestIdle

ContextSpec == ContextInitAll /\ [][ContextNext]_vars

\* the context manager on histories with tool calls
ToolHistoryInitAll ==
    /\ EngineInit /\ AdapterInit /\ a_self = "openai"
    /\ HandlerInit /\ OpenAIIdle /\ ClassifierIdle /\ ToolHistoryInit /\ RestIdle

ToolHistorySpec == ToolHistoryInitAll /\ [][ContextNext]_vars

OpenAIStreamSpec == OpenAIStreamInitAll /\ [][OpenAIStreamNext]_vars

\* every component but the ones named in rest_vars, at rest
CoreIdle ==
    /\ EngineInit /\ AdapterInit /\ a_self = "openai"
    /\ HandlerInit /\ OpenAIIdle /\ ClassifierIdle /\ ContextIdle

\* parallel_run called on lists of tasks
ParallelInitAll == CoreIdle /\ ParallelInit /\ McpIdle /\ FlowIdle /\ TailIdle

ParallelSpec == ParallelInitAll /\ [][ParallelNext]_vars

\* _execute_tool_internal of an engine with an MCP manager
McpInitAll == CoreIdle /\ ParallelIdle /\ McpInit /\ FlowIdle /\ TailIdle

McpSpec == McpInitAll /\ [][McpNext]_vars

\* a streaming call of the OpenAI adapter on a caller's list, with the
\* context manager at its defaults or with preserve_recent_messages lowered
FlowInitAll ==
    /\ EngineInit /\ AdapterInit /\ a_self = "openai"
    /\ HandlerInit /\ OpenAIIdle /\ ClassifierIdle
    /\ preserve_recent_messages \in {2, 10}
    /\ max_context_messages = 50
    /\ p_messages = <<>> /\ p_call = <<>> /\ p_result = <<>>
    /\ ParallelIdle /\ McpIdle /\ FlowInit /\ TailIdle

FlowSpec == FlowInitAll /\ [][FlowNext]_vars

\* tool functions that run under the timeout of _execute_tool_safely
ExecInitAll ==
    CoreIdle /\ ParallelIdle /\ McpIdle /\ FlowIdle /\ ExecInit /\ UiIdle /\ LateIdle

ExecSpec == ExecInitAll /\ [][ExecNext]_vars

\* the todo tools called one after another on the store of the process
TodoInitAll ==
    /\ CoreIdle /\ ParallelIdle /\ McpIdle /\ FlowIdle /\ ExecIdle /\ UiIdle /\ TodoInit
    /\ ToolsIdle

TodoSpec == TodoInitAll /\ [][TodoNext]_vars

\* the worker of the UI with its prompts and the two commands
UiInitAll ==
    CoreIdle /\ ParallelIdle /\ McpIdle /\ FlowIdle /\ ExecIdle /\ UiInit /\ LateIdle

UiSpec == UiInitAll /\ [][UiNext]_vars

\* ------------------------------------------------------------------------
\* Properties of run_stream
\* ------------------------------------------------------------------------
WellFormed(msgs) ==
    /\ msgs # <<>>
    /\ \A i \in 1..Len(msgs) : IsInstanceDict(msgs[i]) /\ "role" \in DOMAIN msgs[i]

IsRoundComplete(e) == e.type = "round_complete"
IsToolResult(e) == e.type = "tool_result"
IsAppend(e) == e.type = "append_message"
IsAssistantAppend(e) == IsAppend(e) /\ e.message.role = "assistant"
IsToolAppend(e) == IsAppend(e) /\ e.message.role = "tool"
IsErrorEvent(e) ==
    e.type = "text" /\ "delta" \in DOMAIN e /\ Contains(e.delta, "[ERROR]")

LastIsRoundComplete == events # <<>> /\ IsRoundComplete(events[Len(events)])

\* what the execution of the i-th scheduled call produced
OwnResult(i) ==
    ExecuteToolSafely(scheduled_tools[i].name, scheduled_tools[i].arguments,
                      trun[i].dur, trun[i].ending, i)

IsErrorPayload(content) == content # <<>> /\ content[1] = "{error:"

TimedOut(res) == "error" \in DOMAIN res /\ Contains(res.error, "execution timed out")

\* C1: for well-formed messages the events of run_stream contain exactly one
\* round_complete and it is the last event: none is emitted before the
\* generator is exhausted, and the last event is one when it is.
C1_OneRoundCompleteLast ==
    WellFormed(messages) =>
        /\ \A i \in 1..Len(events) :
               IsRoundComplete(events[i]) => (i = Len(events) /\ pc = "done")
        /\ pc = "done" => LastIsRoundComplete

\* a finished round in which the provider raised mid-stream after two tool calls
C1_Witness ==
    /\ pc = "done"
    /\ WellFormed(messages)
    /\ Len(scheduled_tools) = 2
    /\ \E i \in 1..Len(events) : IsErrorEvent(events[i])
    /\ LastIsRoundComplete

\* C2: for malformed input the events contain an [ERROR] text, no provider
\* call is made and the sequence ends with round_complete.
C2_MalformedEndsWithRoundComplete ==
    (pc = "done" /\ ~WellFormed(messages)) =>
        /\ \E i \in 1..Len(events) : IsErrorEvent(events[i])
        /\ provider_calls = 0
        /\ LastIsRoundComplete

\* run_stream([]) has finished with one [ERROR] text and nothing after it
C2_Witness ==
    /\ pc = "done"
    /\ messages = <<>>
    /\ provider_calls = 0
    /\ Len(events) = 1
    /\ IsErrorEvent(events[1])

\* C3: run_stream on well-formed messages always finishes with
\* round_complete, under fair scheduling of the generator, the provider and
\* the tool tasks.
C3_EventuallyRoundComplete ==
    (pc = "validate" /\ WellFormed(messages)) ~> (pc = "done" /\ LastIsRoundComplete)

\* a finished round one of whose tools ran past the timeout
C3_Witness ==
    /\ pc = "done"
    /\ WellFormed(messages)
    /\ \E i \in 1..Len(trun) : trun[i].ending = "cancelled"
    /\ LastIsRoundComplete

\* C4: at most one assistant append_message is emitted, exactly one once the
\* round is finished; it precedes every tool-result append_message, and
\* every append_message precedes round_complete.
C4_AssistantAppendOrder ==
    WellFormed(messages) =>
        LET A == {i \in 1..Len(events) : IsAssistantAppend(events[i])}
            T == {i \in 1..Len(events) : IsToolAppend(events[i])}
            R == {i \in 1..Len(events) : IsRoundComplete(events[i])}
        IN  /\ Cardinality(A) <= 1
            /\ pc = "done" => Cardinality(A) = 1
            /\ \A t \in T : \E a \in A : a < t
            /\ \A x \in A \cup T : \A r \in R : x < r

\* a finished round whose assistant message is the fallback and which has
\* two tool-result messages
C4_Witness ==
    /\ pc = "done"
    /\ WellFormed(messages)
    /\ Raised(BuildAssistantMessage(Join(assistant_text_parts), tool_calls))
    /\ Cardinality({i \in 1..Len(events) : IsToolAppend(events[i])}) = 2

\* C5: the i-th tool_result event and the i-th tool-result append_message
\* carry the id of the i-th tool_call chunk and the serialized result of the
\* i-th call, in whatever order the tools completed.
PairedWithCall(id, content, i) ==
    /\ i <= Len(tool_calls)
    /\ ("id" \in DOMAIN tool_calls[i] => id = tool_calls[i].id)
    /\ content = ResultStr(OwnResult(i))

C5_ResultsPairedByPosition ==
    WellFormed(messages) =>
        LET tr == SelectSeq(events, IsToolResult)
            ta == SelectSeq(events, IsToolAppend)
        IN  /\ \A i \in 1..Len(tr) : PairedWithCall(tr[i].id, tr[i].content, i)
            /\ \A i \in 1..Len(ta) :
                   PairedWithCall(ta[i].message.tool_call_id, ta[i].message.content, i)

\* a finished round whose second tool completed before its first, with
\* different results
C5_Witness ==
    /\ pc = "done"
    /\ reordered
    /\ Len(scheduled_tools) = 2
    /\ scheduled_tools[1].id # scheduled_tools[2].id
    /\ trun[1].ending = "cancelled"
    /\ trun[2].ending = "returns"
    /\ Len(SelectSeq(events, IsToolAppend)) = 2

\* C6: every tool-result message of the caller's history carries the id of a
\* tool call listed in a preceding assistant message.
ToolPairing(h) ==
    \A k \in 1..Len(h) :
        h[k].role = "tool" =>
            \E j \in 1..(k - 1) :
                /\ h[j].role = "assistant"
                /\ "tool_calls" \in DOMAIN h[j]
                /\ \E c \in 1..Len(h[j].tool_calls) :
                       h[j].tool_calls[c].id = h[k].tool_call_id

C6_HistoryToolPairing == ToolPairing(history)

\* the history after a round whose tool_call chunk had no id: the fallback
\* assistant message lists no tool call, the tool message answers one
C6_Witness ==
    /\ pc = "done"
    /\ Len(history) = 3
    /\ history[2].role = "assistant"
    /\ "tool_calls" \notin DOMAIN history[2]
    /\ history[3].role = "tool"
    /\ Len(tool_calls) = 1
    /\ "id" \notin DOMAIN tool_calls[1]

\* C7: when a tool raises, its result is an error payload, every other call
\* of the round still has its own tool_result, and the round ends with
\* round_complete.
C7_RaisingToolIsIsolated ==
    (pc = "done" /\ WellFormed(messages)) =>
        \A i \in 1..Len(trun) :
            trun[i].ending = "raises" =>
                LET tr == SelectSeq(events, IsToolResult)
                IN  /\ Len(tr) = Len(scheduled_tools)
                    /\ IsErrorPayload(tr[i].content)
                    /\ \A j \in 1..Len(tr) : tr[j].content = ResultStr(OwnResult(j))
                    /\ LastIsRoundComplete

\* a finished round whose first tool raised and whose second returned
C7_Witness ==
    /\ pc = "done"
    /\ Len(trun) = 2
    /\ trun[1].ending = "raises"
    /\ trun[2].ending = "returns"
    /\ scheduled_tools[1].name \in Registry
    /\ Len(SelectSeq(events, IsToolResult)) = 2

\* C8: a tool that runs longer than the configured tool_timeout gets a
\* timed-out error, one that finishes within it gets its own result.
C8_TimeoutIsToolTimeout ==
    \A i \in 1..Len(trun) :
        (/\ trun[i].state = "done"
         /\ trun[i].ending \in {"returns", "returns_object", "raises", "cancelled"}
         /\ scheduled_tools[i].name \in Registry) =>
            /\ trun[i].dur > tool_timeout => TimedOut(results[i])
            /\ trun[i].dur <= tool_timeout => ~TimedOut(results[i])

\* after /timeout 120 a tool that ran 90 s has a timed-out result
C8_Witness ==
    /\ tool_timeout = 120
    /\ \E i \in 1..Len(trun) :
           /\ trun[i].state = "done"
           /\ scheduled_tools[i].name \in Registry
           /\ trun[i].dur = 90
           /\ TimedOut(results[i])

C10_BoundedVendorCalls ==
    /\ [](vendor_calls <= 3)
    /\ ((a_pc = "call") ~> (a_pc = "done"))

\* three vendor calls failed, the stream ended with [ERROR], and the retry
\* dictionary still has budget for the key
C10_Witness ==
    /\ a_pc = "done"
    /\ vendor_calls = 3
    /\ retry_count = 2
    /\ Get(retry_counts, a_key, 0) < max_retries
    /\ a_events # <<>>
    /\ a_events[Len(a_events)].delta[1] = "[ERROR] API call failed: "

\* the classes for which the adapters are to retry
RetryClasses ==
    {"rate_limit", "token_limit", "context_exceeded", "server_error", "network_error"}

IsErrorDelta(delta) ==
    delta # <<>> /\ delta[1] \in {"[ERROR] API call failed: ",
                                  "[ERROR] Stream processing failed: ",
                                  "[ERROR] Stream iteration failed: "}

\* C13: in every adapter the first failure of a streaming call, at call
\* time or mid-stream, with an error of a retry class and a retry dictionary
\* that still has budget is followed by another vendor call and by no
\* [ERROR] event.
C13_FirstFailureRetried ==
    [][(/\ a_pc = "failed"
        /\ vendor_calls = 1
        /\ AnalyzeError(a_error.error).error_type \in RetryClasses
        /\ Get(retry_counts, a_key, 0) < max_retries) =>
           (/\ a_pc' = "call"
            /\ \A i \in 1..Len(a_events') : ~IsErrorDelta(a_events'[i].delta))]_vars

\* the Anthropic adapter has ended with [ERROR] after one vendor call whose
\* stream broke with a network error
C13_Witness ==
    /\ a_self = "anthropic"
    /\ a_pc = "done"
    /\ vendor_calls = 1
    /\ a_events # <<>>
    /\ a_events[Len(a_events)].delta[1] = "[ERROR] Stream iteration failed: "
    /\ AnalyzeError(Tail(a_events[Len(a_events)].delta)).error_type = "network_error"
    /\ Get(retry_counts, a_key, 0) < max_retries

TerminalClasses == {"auth_error", "forbidden", "unknown"}

\* the [ERROR] events among evts
ErrorEvents(evts) == SelectSeq(evts, LAMBDA e : IsErrorDelta(e.delta))

RetryDue(error_str, counts, key) ==
    /\ AnalyzeError(error_str).is_recoverable
    /\ Get(counts, key, 0) < max_retries
    /\ AnalyzeError(error_str).should_retry

\* C11: handle_error_with_retry invokes retry_fn exactly when the error is
\* recoverable, the key's count is below max_retries and should_retry holds;
\* otherwise it re-raises the original error and leaves retry_counts alone.
\* When it retries, retry_fn runs with the count already incremented by
\* exactly 1 and every event it yields is passed on in order.
C11_RetryIffDue ==
    [][h_last' # h_last =>
        LET call == h_last'
            count == Get(retry_counts, call.key, 0)
        IN  /\ call.invoked <=> RetryDue(call.error, retry_counts, call.key)
            /\ ~call.invoked =>
                   /\ call.raised = Raise(call.error)
                   /\ call.forwarded = <<>>
                   /\ retry_counts' = retry_counts
            /\ call.invoked =>
                   /\ call.seen_by_fn = Some(count + 1)
                   /\ Get(retry_counts', call.key, 0) = count + 1
                   /\ \A k \in HandlerKeys \ {call.key} :
                          Get(retry_counts', k, 0) = Get(retry_counts, k, 0)
                   /\ call.forwarded = call.fn.yields]_vars

\* a second retry for a key was granted and its two events were passed on
C11_Witness ==
    /\ h_last.called
    /\ h_last.invoked
    /\ Get(h_last.before, h_last.key, 0) = 1
    /\ Len(h_last.forwarded) = 2

\* C12: no key's count exceeds max_retries, at most max_retries retries are
\* granted for a key between two resets, and a call for a key whose count
\* has reached max_retries re-raises.
C12_CountsBounded ==
    /\ [](\A k \in HandlerKeys :
              /\ Get(retry_counts, k, 0) <= max_retries
              /\ h_granted[k] <= max_retries)
    /\ [][(h_last' # h_last /\ Get(retry_counts, h_last'.key, 0) >= max_retries) =>
              (/\ ~h_last'.invoked
               /\ h_last'.raised = Raise(h_last'.error)
               /\ retry_counts' = retry_counts)]_vars

\* a retryable error is refused for a key that used up its three retries
C12_Witness ==
    /\ h_last.called
    /\ ~h_last.invoked
    /\ AnalyzeError(h_last.error).is_recoverable
    /\ AnalyzeError(h_last.error).should_retry
    /\ Get(retry_counts, h_last.key, 0) = max_retries
    /\ h_granted[h_last.key] = max_retries

\* ------------------------------------------------------------------------
\* Properties of the OpenAI stream loop
\* ------------------------------------------------------------------------
\* C15: however the argument JSON of a tool call is split into fragments,
\* and in whichever delta id and name arrive, the adapter yields at most one
\* tool_call chunk per index, the buffer it was yielded for parses as JSON,
\* and its arguments are the parse of the whole argument JSON.
C15_ChunkedToolCall ==
    /\ \A idx \in Indexes :
           Cardinality({i \in 1..Len(o_events) : o_events[i].idx = idx}) <= 1
    /\ \A i \in 1..Len(o_events) :
           /\ ~Raised(JsonLoads(o_events[i].buffer))
           /\ o_events[i].chunk.arguments = JsonLoads(o_full[o_events[i].idx]).value
    /\ \A idx \in Indexes :
           (idx \in DOMAIN arg_buf /\ Raised(JsonLoads(arg_buf[idx]))) =>
               \A i \in 1..Len(o_events) : o_events[i].idx # idx

\* the nested object of call 0 has arrived in four fragments or more and
\* was yielded once, while the buffer of call 1 holds a fragment that does
\* not parse
C15_Witness ==
    /\ o_full[0] = Json_Nested
    /\ o_sent[0] = Len(o_full[0])
    /\ o_nfrag[0] >= 4
    /\ Cardinality({i \in 1..Len(o_events) : o_events[i].idx = 0}) = 1
    /\ 1 \in DOMAIN arg_buf
    /\ Raised(JsonLoads(arg_buf[1]))
    /\ \A i \in 1..Len(o_events) : o_events[i].idx # 1

\* ------------------------------------------------------------------------
\* Properties of the error classifier
\* ------------------------------------------------------------------------
Categories ==
    {"rate_limit", "token_limit", "context_exceeded", "auth_error",
     "forbidden", "validation_error", "server_error", "network_error",
     "unknown"}

\* the rules of the decision table, as conditions on the text
Rule1(text) == In("429", text) /\ In("rate_limit_exceeded", text)
Rule2(text) ==
    In("400", text) /\ (In("token", LowerStr(text)) \/ In("context", LowerStr(text)))
Rule3(text) ==
    \/ In("context", LowerStr(text)) /\ In("window", LowerStr(text))
    \/ In("maximum context length", LowerStr(text))

\* the category of the first rule of the table that applies
FirstMatch(text) ==
    IF Rule1(text) THEN "rate_limit"
    ELSE IF Rule2(text) THEN "token_limit"
    ELSE IF Rule3(text) THEN "context_exceeded"
    ELSE IF In("401", text) THEN "auth_error"
    ELSE IF In("403", text) THEN "forbidden"
    ELSE IF In("422", text) THEN "validation_error"
    ELSE IF \E code \in ServerCodes : In(code, text) THEN "server_error"
    ELSE IF \E term \in NetworkTerms : In(term, LowerStr(text)) THEN "network_error"
    ELSE "unknown"

\* C16: the rules are applied in the order of the table and the first that
\* applies decides: a text with 429 and rate_limit_exceeded is rate_limit
\* whatever else it mentions, a text without these two that has 400 with
\* token or context is token_limit whatever later rule it matches, and the
\* category is always one of the nine.
C16_FirstMatchWins ==
    c_analysis # <<>> =>
        /\ Rule1(c_error) => c_analysis[1].error_type = "rate_limit"
        /\ (~Rule1(c_error) /\ Rule2(c_error)) =>
               c_analysis[1].error_type = "token_limit"
        /\ c_analysis[1].error_type = FirstMatch(c_error)
        /\ c_analysis[1].error_type \in Categories

\* a rate-limit text that also mentions context, window and a 400 has been
\* classified
C16_Witness ==
    /\ c_analysis # <<>>
    /\ Rule1(c_error)
    /\ In("context", c_error) /\ In("window", c_error)
    /\ c_analysis[1].error_type = "rate_limit"

\* the message mentions tokens or TPM
MentionsTokens(text) == In("tokens", LowerStr(text)) \/ In("tpm", LowerStr(text))

\* C17: for a text classified rate_limit, wait_seconds is the N of its
\* "try again in <N>s" if it has one, otherwise 20 if the message mentions
\* tokens or TPM and 60 if not; should_reduce_context and
\* should_prune_messages are true exactly when it mentions tokens or TPM.
C17_RateLimitWait ==
    (c_analysis # <<>> /\ c_analysis[1].error_type = "rate_limit") =>
        /\ c_analysis[1].wait_seconds =
               IF TimeMatch(LowerStr(c_error)) # NoneInt
               THEN TimeMatch(LowerStr(c_error))
               ELSE IF MentionsTokens(c_error) THEN Some(20) ELSE Some(60)
        /\ c_analysis[1].should_reduce_context = MentionsTokens(c_error)
        /\ c_analysis[1].should_prune_messages = MentionsTokens(c_error)

\* a rate-limit text that mentions tokens, without a time to wait and
\* without TPM or "tokens per min", has been analysed: the pruning flags are
\* set and the wait is 60 seconds
C17_Witness ==
    /\ c_analysis # <<>>
    /\ c_error = <<"429", "rate_limit_exceeded", "tokens">>
    /\ c_analysis[1].error_type = "rate_limit"
    /\ c_analysis[1].should_prune_messages
    /\ c_analysis[1].wait_seconds = Some(60)

\* ------------------------------------------------------------------------
\* Properties of the context manager
\* ------------------------------------------------------------------------
Called(op) == p_call # <<>> /\ p_call[1].op = op

Returned == p_result[1].messages

SystemOf(msgs) == SelectSeq(msgs, IsSystem)
NonSystemOf(msgs) == SelectSeq(msgs, NotSystem)

\* the target count of the call made
CallTargetCount ==
    TargetCount(Len(NonSystemOf(p_messages)), p_call[1].target_reduction[1],
                preserve_recent_messages)

\* the n most recent of msgs, all of them if there are no more than n
MostRecent(msgs, n) ==
    IF n >= Len(msgs) THEN msgs ELSE [i \in 1..n |-> msgs[Len(msgs) - n + i]]

\* C18: the list prune_messages returns holds every system message of the
\* input, unchanged, and exactly the target_count most recent of the other
\* messages in their order, nothing that is not in the input, and the call
\* leaves the input list as it was.
C18_PruneKeepsSystemAndRecent ==
    /\ [](Called("prune_messages") =>
            /\ SystemOf(Returned) = SystemOf(p_messages)
            /\ NonSystemOf(Returned) = MostRecent(NonSystemOf(p_messages), CallTargetCount)
            /\ \A i \in 1..Len(Returned) :
                   \E j \in 1..Len(p_messages) : Returned[i] = p_messages[j])
    /\ [][p_call' # p_call => p_messages' = p_messages]_vars

\* with the default limits, a list of twelve messages whose one system
\* message is not the first has been pruned to eleven
C18_Witness ==
    /\ Called("prune_messages")
    /\ preserve_recent_messages = 10
    /\ Len(p_messages) = 12
    /\ Len(SystemOf(p_messages)) = 1
    /\ NotSystem(p_messages[1])
    /\ ~p_result[1].same_object
    /\ Len(Returned) = 11

\* C19: when target_count is at least the number of non-system messages,
\* as it is for a target_reduction of 0.0 and for a list with no more than
\* preserve_recent_messages non-system messages, prune_messages returns the
\* input: the same messages in the same order.
C19_NoPruningIsIdentity ==
    Called("prune_messages") =>
        /\ CallTargetCount >= Len(NonSystemOf(p_messages)) => Returned = p_messages
        /\ p_call[1].target_reduction = Some(0) => Returned = p_messages
        /\ Len(NonSystemOf(p_messages)) <= preserve_recent_messages =>
               Returned = p_messages

\* prune_messages with a target_reduction of 0.0 has returned a list of
\* twelve messages, more of them than preserve_recent_messages, whose system
\* messages come after other messages
C19_Witness ==
    /\ Called("prune_messages")
    /\ p_call[1].target_reduction = Some(0)
    /\ preserve_recent_messages = 2
    /\ Len(p_messages) = 12
    /\ Len(SystemOf(p_messages)) = 2
    /\ NotSystem(p_messages[1])
    /\ Returned = p_messages

\* the call made was told to prune
CallShouldPrune ==
    ContextShouldPrune(p_messages, p_call[1].error_str, max_context_messages)

\* tail is what is left of msgs after dropping messages from its front
IsTail(tail, msgs) ==
    /\ Len(tail) <= Len(msgs)
    /\ \A i \in 1..Len(tail) : tail[i] = msgs[Len(msgs) - Len(tail) + i]

\* C20: adaptive_prune_with_summary returns its input when should_prune is
\* false; otherwise it returns the system messages of the input, then one
\* summary message with the role system, then the non-system messages that
\* were retained, so that the summary comes right after the system messages
\* and before every retained non-system message.
C20_SummaryPlacement ==
    Called("adaptive_prune_with_summary") =>
        IF ~CallShouldPrune THEN Returned = p_messages
        ELSE LET k == Len(SystemOf(p_messages)) IN
             /\ Len(Returned) > k
             /\ SubSeq(Returned, 1, k) = SystemOf(p_messages)
             /\ Returned[k + 1].role = "system"
             /\ \A j \in 1..Len(p_messages) : Returned[k + 1] # p_messages[j]
             /\ \A i \in (k + 2)..Len(Returned) : NotSystem(Returned[i])
             /\ IsTail(SubSeq(Returned, k + 2, Len(Returned)), NonSystemOf(p_messages))
             /\ SubSeq(Returned, k + 2, Len(Returned)) =
                    NonSystemOf(PruneForError(p_messages, p_call[1].error_str,
                                              preserve_recent_messages).messages)

\* a list whose system messages are not at its front was pruned for a
\* context error: messages were dropped and the summary is the third message
C20_Witness ==
    /\ Called("adaptive_prune_with_summary")
    /\ p_call[1].error_str = "context overflow"
    /\ Len(p_messages) = 12
    /\ Len(SystemOf(p_messages)) = 2
    /\ NotSystem(p_messages[1])
    /\ Len(Returned) < Len(p_messages)
    /\ Returned[3] = CreateContextSummary(p_messages)

\* ------------------------------------------------------------------------
\* Properties of parallel_run
\* ------------------------------------------------------------------------
\* what the tool of a task does when it is executed as the i-th task
TaskEnd(task, i) == ExecuteTool(task.tool, <<>>, task.outcome, i)

\* C21: parallel_run returns a list as long as tasks whose i-th element is
\* the result of task i, or an object with the key error if task i raised or
\* names no tool, in whatever order the tasks end; it does not raise.
C21_ParallelRunPositional ==
    pr_return # <<>> =>
        /\ ~Raised(pr_return[1])
        /\ Len(pr_return[1].list) = Len(pr_tasks)
        /\ \A i \in 1..Len(pr_tasks) :
               IF Raised(TaskEnd(pr_tasks[i], i))
               THEN "error" \in DOMAIN pr_return[1].list[i]
               ELSE pr_return[1].list[i] = TaskEnd(pr_tasks[i], i)

\* called through the registry with the dicts of a tool call: a task whose
\* tool returns is reported as an error while another task is still running
\* or has ended
C21_Witness ==
    /\ pr_return # <<>>
    /\ pr_form = "dict"
    /\ Len(pr_tasks) = 2
    /\ pr_tasks[1] = [tool |-> "t", outcome |-> "returns"]
    /\ ~Raised(pr_return[1])
    /\ "error" \in DOMAIN pr_return[1].list[1]

\* ------------------------------------------------------------------------
\* Properties of tool execution with an MCP manager
\* ------------------------------------------------------------------------
InCalls(call) == \E i \in 1..Len(m_calls) : m_calls[i] = call

\* the manager advertises the name called
NameAdvertised == mcp_manager # PyNone /\ m_name \in mcp_manager.tools

\* the manager has no client, or every client fails
ManagerFails ==
    mcp_manager # PyNone /\
    \A i \in 1..Len(mcp_manager.clients) : mcp_manager.clients[i] = "raises"

\* the local registry has no such tool, or the tool raises
RegistryFails == m_name \notin Registry \/ m_outcome = "raises"

IsTextChunk(c) == IsInstanceDict(c) /\ Get(c, "type", "None") = "text"
IsToolCallChunk(c) == IsInstanceDict(c) /\ Get(c, "type", "None") = "tool_call"
IsTextEvent(e) == e.type = "text"
\* the text events run_stream has passed through
Forwarded == SelectSeq(events, LAMBDA e : IsTextEvent(e) /\ ~IsErrorEvent(e))
\* a tool of the round has begun to execute
SomeToolBegun == \E i \in 1..Len(trun) : trun[i].state # "queued"
\* this step is the begin of a tool execution
ToolBegins ==
    \E i \in 1..Len(trun) :
        /\ trun[i].state = "queued"
        /\ i \in 1..Len(trun')
        /\ trun'[i].state # "queued"

\* C24: no tool execution starts before the provider stream of the round
\* has ended: when a tool begins to execute the stream is over, every text
\* and tool_call chunk of the round has been consumed (the text chunks are
\* forwarded, the tool calls recorded), and no chunk is consumed after a
\* tool has begun.
C24_ToolsAfterStream ==
    /\ [][ToolBegins =>
             /\ pc = "dispatch"
             /\ SelectSeq(consumed, IsTextChunk) = Forwarded
             /\ SelectSeq(consumed, IsToolCallChunk) = tool_calls
             /\ Len(tool_calls) = Len(trun)]_vars
    /\ [][SomeToolBegun => consumed' = consumed]_vars

\* a tool is running in a round whose stream gave a text after the tool call
C24_Witness ==
    /\ pc = "dispatch"
    /\ \E i \in 1..Len(trun) : trun[i].state = "running"
    /\ Len(consumed) = 2
    /\ IsToolCallChunk(consumed[1])
    /\ IsTextChunk(consumed[2])
    /\ Len(Forwarded) = 1

\* the id run_stream gives the n-th tool call of the round (line 94)
CallId(chunk, n) == Get(chunk, "id", "call_" \o ToString(n))
\* the ids of the tool_call chunks consumed, in order
RequestedIds ==
    LET tcs == SelectSeq(consumed, IsToolCallChunk)
    IN  [n \in 1..Len(tcs) |-> CallId(tcs[n], n)]
ResultIds ==
    LET tr == SelectSeq(events, IsToolResult)
    IN  [n \in 1..Len(tr) |-> tr[n].id]
ToolAppendIds ==
    LET ta == SelectSeq(events, IsToolAppend)
    IN  [n \in 1..Len(ta) |-> ta[n].message.tool_call_id]
IsPrefix(a, b) == Len(a) <= Len(b) /\ SubSeq(b, 1, Len(a)) = a

\* C25: every tool_call chunk run_stream consumed is dispatched exactly
\* once: at the end of the round there is exactly one tool_result event and
\* exactly one tool-result append_message per consumed tool_call, in the
\* order of the calls and with their ids, every call was executed once, and
\* at no time is there a tool_result or a tool message for an id that was
\* not requested in the round.
C25_DispatchedExactlyOnce ==
    WellFormed(messages) =>
        /\ IsPrefix(ResultIds, RequestedIds)
        /\ IsPrefix(ToolAppendIds, RequestedIds)
        /\ pc = "done" =>
               /\ ResultIds = RequestedIds
               /\ ToolAppendIds = RequestedIds
               /\ Len(trun) = Len(RequestedIds)
               /\ \A i \in 1..Len(trun) : trun[i].state = "done"

\* a finished round with two tool calls, the first without an id
C25_Witness ==
    /\ pc = "done"
    /\ WellFormed(messages)
    /\ Len(consumed) = 2
    /\ IsToolCallChunk(consumed[1]) /\ "id" \notin DOMAIN consumed[1]
    /\ IsToolCallChunk(consumed[2])
    /\ ResultIds = <<"call_1", "c2">>
    /\ ToolAppendIds = <<"call_1", "c2">>

IsToolCallEvent(e) == e.type = "tool_call"

\* C28: run_stream emits to its consumer every tool_call chunk it receives
\* from the adapter, in the order of the stream, and each of them before
\* the tool_result with its id.
C28_ToolCallsEmitted ==
    WellFormed(messages) =>
        /\ SelectSeq(events, IsToolCallEvent) = SelectSeq(consumed, IsToolCallChunk)
        /\ \A r \in 1..Len(events) :
               IsToolResult(events[r]) =>
                   \E c \in 1..(r - 1) :
                       /\ IsToolCallEvent(events[c])
                       /\ "id" \in DOMAIN events[c] => events[c].id = events[r].id

\* a finished round in which the adapter produced a tool call and the
\* consumer got its result
C28_Witness ==
    /\ pc = "done"
    /\ WellFormed(messages)
    /\ Len(SelectSeq(consumed, IsToolCallChunk)) = 1
    /\ Len(SelectSeq(events, IsToolResult)) = 1

\* C29: run_stream forwards the text events in the order the adapter
\* produced them, and the content of the assistant message of the round is
\* the concatenation, in that order, of the deltas of the text events it
\* forwarded from the adapter.
C29_TextOrderAndContent ==
    WellFormed(messages) =>
        /\ Forwarded = SelectSeq(consumed, IsTextChunk)
        /\ \A i \in 1..Len(events) :
               IsAssistantAppend(events[i]) =>
                   events[i].message.content =
                       Join([k \in 1..Len(Forwarded) |-> Get(Forwarded[k], "delta", <<>>)])

\* the assistant message of a round whose stream gave b and then a
C29_Witness ==
    /\ pc = "done"
    /\ WellFormed(messages)
    /\ Len(Forwarded) = 2
    /\ Forwarded[1] = [type |-> "text", delta |-> <<"b">>]
    /\ Forwarded[2] = [type |-> "text", delta |-> <<"a">>]
    /\ \E i \in 1..Len(events) :
           IsAssistantAppend(events[i]) /\ events[i].message.content = <<"b", "a">>

\* ------------------------------------------------------------------------
\* Properties of the timeout of a tool
\* ------------------------------------------------------------------------
\* C26: a tool execution that exceeds its timeout is cancelled, that is it
\* performs no further step, be the tool async or a sync tool in a thread,
\* and its result is the timeout error; every other tool in flight still
\* runs to completion and yields its own result.
C26_TimeoutCancels ==
    /\ [](\A i \in 1..Len(x_wait) :
             /\ x_wait[i] = "timeout" => TimedOut(x_results[i])
             /\ x_wait[i] = "returned" =>
                    /\ x_results[i] = [result |-> <<"t", ToString(i)>>]
                    /\ x_steps[i] = x_tools[i].needs)
    /\ [][\A i \in 1..Len(x_wait) :
             x_wait[i] = "timeout" => x_steps'[i] = x_steps[i]]_vars

\* the first tool timed out after one step and stays there, the second
\* ran to completion after that
C26_Witness ==
    /\ x_wait = <<"timeout", "returned">>
    /\ x_tools[1].is_async
    /\ x_steps[1] = 1 /\ x_tools[1].needs = 2
    /\ x_results[2] = [result |-> <<"t", "2">>]

\* ------------------------------------------------------------------------
\* Properties of the retry budget across streaming calls
\* ------------------------------------------------------------------------
\* the streaming call has ended without an error event as its last event
Succeeded ==
    /\ a_pc = "done"
    /\ vendor_calls > 0
    /\ (a_events = <<>> \/ ~IsErrorDelta(a_events[Len(a_events)].delta))
\* a new call of completions_stream is about to make its first vendor call
CallStarts == a_pc = "call" /\ vendor_calls = 0

\* C27: after a streaming call has completed successfully, with or without
\* retries, the retry counter of its key is cleared, and every new
\* streaming call starts with the full retry budget for its key.
C27_BudgetRestored ==
    /\ Succeeded => Get(retry_counts, a_key, 0) = 0
    /\ CallStarts => Get(retry_counts, a_key, 0) = 0

\* a call that succeeded on its retry
C27_Witness ==
    /\ Succeeded
    /\ retry_count = 1
    /\ vendor_calls = 2
    /\ a_key \in DOMAIN retry_counts

\* ------------------------------------------------------------------------
\* Properties of the auto-round loop
\* ------------------------------------------------------------------------
\* this step invokes run_stream again for the same prompt
FurtherRound == u_calls >= 1 /\ u_calls' = u_calls + 1

\* C30: for one prompt the loop invokes run_stream at most max_rounds + 1
\* times; a further round starts only if auto_continue is on and the
\* previous round reported had_tool_calls; with auto_continue off exactly
\* one round runs; and the loop stops after the single final round that
\* follows reaching max_rounds.
C30_BoundedRounds ==
    /\ [](u_pc # "idle" => u_calls <= max_rounds + 1)
    /\ []((u_pc = "done" /\ ~auto_continue) => u_calls = 1)
    /\ [][FurtherRound => auto_continue /\ had_tools_this_round]_vars
    /\ [][u_pc = "final" => u_pc' = "done" /\ u_calls' = u_calls]_vars

\* the loop has ended after max_rounds rounds with tool calls and the final
\* round
C30_Witness ==
    /\ u_pc = "done"
    /\ auto_continue
    /\ max_rounds = 2
    /\ rounds = 2
    /\ u_calls = 3

\* ------------------------------------------------------------------------
\* Properties of the message lists of a streaming call
\* ------------------------------------------------------------------------
\* C23: run_stream and the retry and pruning path of the adapter leave the
\* caller's list as it was, also after pruning and retrying: while the call
\* runs the list has the length and the elements it had at the call, and
\* it changes only when the caller appends the message of an
\* append_message event.
C23_CallerListUntouched ==
    /\ [](f_pc \in {"call", "apply"} => f_heap[1] = f_snapshot)
    /\ [][f_heap'[1] # f_heap[1] =>
             /\ f_pc = "apply"
             /\ Len(f_heap'[1]) = Len(f_heap[1]) + 1
             /\ SubSeq(f_heap'[1], 1, Len(f_heap[1])) = f_heap[1]]_vars

\* the second retry succeeded with a pruned list that is shorter than the
\* caller's, which still is what it was at the call
C23_Witness ==
    /\ f_pc = "apply"
    /\ f_retry = 2
    /\ f_orig # 1
    /\ Len(f_heap[f_orig]) < Len(f_snapshot)
    /\ f_heap[1] = f_snapshot

\* ------------------------------------------------------------------------
\* Properties of the final round at the round limit
\* ------------------------------------------------------------------------
\* run_stream serves the final round: the list it got ends with the notice
InFinalRound == messages # <<>> /\ messages[Len(messages)] = LimitNotice

\* C31: in the final round the UI runs after the round limit no tool is
\* executed, whatever the provider stream contains: no tool call is
\* dispatched in that round.
C31_NoToolsInFinalRound ==
    InFinalRound => \A i \in 1..Len(trun) : trun[i].state = "queued"

\* a final round whose stream held a tool call has ended with the result of
\* the tool among its events
C31_Witness ==
    /\ InFinalRound
    /\ pc = "done"
    /\ Len(trun) = 1
    /\ trun[1].ending = "returns"
    /\ \E i \in 1..Len(events) : IsToolResult(events[i])

\* ------------------------------------------------------------------------
\* Properties of the letter case in the classification
\* ------------------------------------------------------------------------
\* the type and the flags of an analysis
TypeAndFlags(analysis) ==
    <<analysis.error_type, analysis.is_recoverable, analysis.should_retry,
      analysis.should_reduce_context, analysis.should_prune_messages>>

\* C32: the keyword matching of analyze_error does not depend on the letter
\* case: a text and the same text with its keywords in lower case get the
\* same error_type and the same recoverability, retry and pruning flags.
C32_CaseInsensitive ==
    c_analysis # <<>> =>
        TypeAndFlags(c_analysis[1]) = TypeAndFlags(AnalyzeError(LowerStr(c_error)))

\* a text with 429 and the rate-limit keyword in upper case has been
\* analysed, and so has been classified as something else than its
\* lower-case form
C32_Witness ==
    /\ c_analysis # <<>>
    /\ c_error = <<"429", "RATE_LIMIT_EXCEEDED">>
    /\ c_analysis[1].error_type # "rate_limit"
    /\ AnalyzeError(LowerStr(c_error)).error_type = "rate_limit"

\* ------------------------------------------------------------------------
\* Properties of the size and the shape of a pruned list
\* ------------------------------------------------------------------------
Min(a, b) == IF a <= b THEN a ELSE b

\* round(current_count * (1 - target_reduction)) for a reduction given in
\* tenths: the nearest integer, the even one of two that are equally near
Rounded(current_count, target_reduction) ==
    LET tenths == current_count * (10 - target_reduction)
        low == tenths \div 10
        rest == tenths % 10
    IN  IF rest > 5 THEN low + 1
        ELSE IF rest < 5 THEN low
        ELSE IF low % 2 = 0 THEN low ELSE low + 1

\* the reduction prune_for_error chooses for the error text of the call
ErrorReduction(error_str) ==
    IF "token" \in TermsIn(error_str) \/ "too large" \in TermsIn(error_str) THEN 7
    ELSE IF "context" \in TermsIn(error_str) THEN 5
    ELSE 3

\* the reduction level of the call made
CallReduction ==
    IF p_call[1].op = "prune_messages" THEN p_call[1].target_reduction[1]
    ELSE ErrorReduction(p_call[1].error_str)

\* C33: the number of non-system messages prune_messages keeps, called
\* directly or by prune_for_error with a reduction of 0.3, 0.5 or 0.7, is
\* max(preserve_recent_messages, round(current * (1 - target_reduction))),
\* rounded to the nearest integer (and all of them if there are no more).
C33_KeepsRoundedCount ==
    ((Called("prune_messages") \/ Called("prune_for_error")) /\ CallReduction \in {3, 5, 7}) =>
        Len(NonSystemOf(Returned)) =
            Min(Len(NonSystemOf(p_messages)),
                Max(preserve_recent_messages,
                    Rounded(Len(NonSystemOf(p_messages)), CallReduction)))

\* four messages pruned by 0.3 with two to preserve: 2.8 has been cut to 2
C33_Witness ==
    /\ Called("prune_messages")
    /\ CallReduction = 3
    /\ preserve_recent_messages = 2
    /\ Len(NonSystemOf(p_messages)) = 4
    /\ Len(NonSystemOf(Returned)) = 2

\* ------------------------------------------------------------------------
\* Properties of the todo tools
\* ------------------------------------------------------------------------
\* the list without its item number n, counted from 1
WithoutItem(list, n) ==
    [k \in 1..(Len(list) - 1) |-> IF k < n THEN list[k] ELSE list[k + 1]]

\* C34: the todo tools count from 1: for an index in 1..n todo_remove
\* removes exactly item number index and todo_edit replaces exactly item
\* number index, and both return true; for any other index, 0 and negative
\* ones included, they return false and leave the list as it was.
C34_TodoIndexOneBased ==
    t_last.op \in {"todo_remove", "todo_edit"} =>
        IF t_last.index \in 1..Len(t_last.before)
        THEN /\ t_last.returned = TRUE
             /\ todos = IF t_last.op = "todo_remove"
                        THEN WithoutItem(t_last.before, t_last.index)
                        ELSE [t_last.before EXCEPT ![t_last.index] = t_last.item]
        ELSE /\ t_last.returned = FALSE
             /\ todos = t_last.before

\* todo_remove(0) on a list of two items has removed the first
C34_Witness ==
    /\ t_last.op = "todo_remove"
    /\ t_last.index = 0
    /\ t_last.before = <<"a", "b">>
    /\ t_last.returned = TRUE
    /\ todos = <<"b">>

\* C35: pruning keeps the tool pairing: when the input list has it, the
\* list prune_messages, prune_for_error or adaptive_prune_with_summary
\* returns has no tool message whose assistant message with the call was
\* dropped.
C35_PruningKeepsToolPairing ==
    (p_call # <<>> /\ ToolPairing(p_messages)) => ToolPairing(Returned)

\* a pruned list that begins with the result of a call whose assistant
\* message is gone
C35_Witness ==
    /\ Called("adaptive_prune_with_summary")
    /\ ToolPairing(p_messages)
    /\ Len(Returned) < Len(p_messages)
    /\ \E k \in 1..Len(Returned) :
           /\ Returned[k].role = "tool"
           /\ \A j \in 1..(k - 1) : Returned[j].role = "system"


\* C36: adaptive_prune_with_summary returns a list no longer than the one it
\* was given, and from one attempt of the OpenAI adapter to the next the
\* number of messages sent to the vendor never increases
C36_RetriesNeverGrow ==
    [][f_pc = "call" =>
         /\ Len(f_heap'[f_orig']) <= Len(f_heap[f_orig])
         /\ f_msgs # <<>> => Len(f_msgs') <= Len(f_msgs)]_vars

\* after two context-reduction retries the list for the third attempt is
\* longer than the list the second attempt sent
C36_Witness ==
    /\ f_pc = "call"
    /\ f_retry = 2
    /\ f_msgs # <<>>
    /\ Len(BuildMsgs(f_heap[f_orig])) > Len(f_msgs)


\* a [RECOVERY] delta of an adapter
IsRecoveryDelta(delta) == delta # <<>> /\ delta[1] = "[RECOVERY] "

\* an event the adapter made from an event of the vendor's stream
IsModelEvent(e) == ~IsErrorDelta(e.delta) /\ ~IsRecoveryDelta(e.delta)

\* the index of the last [RECOVERY] event the adapter yielded, 0 if none:
\* the events after it are the events of the last attempt
LastRecovery(evs) ==
    LET at == {k \in 1..Len(evs) : IsRecoveryDelta(evs[k].delta)}
    IN  IF at = {} THEN 0 ELSE CHOOSE k \in at : \A j \in at : j <= k

LastAttempt(evs) == SubSeq(evs, LastRecovery(evs) + 1, Len(evs))

\* C37: when a streaming call that failed after it had yielded events is
\* retried and the retry succeeds, the events the consumer received from the
\* vendor's streams are those of the successful attempt alone
C37_FailedAttemptNotRepeated ==
    Succeeded => SelectSeq(a_events, IsModelEvent) = LastAttempt(a_events)

\* a call succeeded on a retry after an attempt that had yielded an event
\* before its stream failed
C37_Witness ==
    /\ Succeeded
    /\ LastRecovery(a_events) > 1
    /\ IsModelEvent(a_events[1])
    /\ LastAttempt(a_events) # <<>>


\* the first tokens of the diagnostic deltas of the adapters and of run_stream
DiagnosticTokens ==
    {"[RECOVERY] ", "[ERROR]", "[ERROR] API call failed: ",
     "[ERROR] Stream processing failed: ", "[ERROR] Stream iteration failed: "}

\* C38: the content of the assistant message run_stream asks the caller to
\* append holds no [ERROR] or [RECOVERY] delta of an adapter or of run_stream
C38_NoDiagnosticsInAssistant ==
    \A i \in 1..Len(events) :
        IsAssistantAppend(events[i]) =>
            \A k \in 1..Len(events[i].message.content) :
                events[i].message.content[k] \notin DiagnosticTokens

\* the stream carried a diagnostic chunk of the adapter and the round has
\* built its assistant message
C38_Witness ==
    /\ \E k \in 1..Len(consumed) :
           /\ IsTextChunk(consumed[k])
           /\ consumed[k].delta[1] \in DiagnosticTokens
    /\ \E i \in 1..Len(events) : IsAssistantAppend(events[i])


\* the registered function of the i-th scheduled call has been started
Executed(i) ==
    /\ scheduled_tools[i].name \in Registry
    /\ \/ trun[i].state = "running"
       \/ trun[i].state = "done" /\ trun[i].ending # "rejected"

\* C39: while enabled_tools is set, run_stream executes no tool whose name
\* is not in it, whatever the provider stream asks for, and the result of
\* such a call is an error
C39_DisabledToolsNotExecuted ==
    enabled_tools # NoneInt =>
        \A i \in 1..Len(trun) :
            scheduled_tools[i].name \notin enabled_tools[1] =>
                /\ ~Executed(i)
                /\ (i <= Len(results) /\ results[i] # NotYet) =>
                       "error" \in DOMAIN results[i]

\* the stream named a tool that was not offered to the provider, and its
\* function has run and returned
C39_Witness ==
    /\ enabled_tools # NoneInt
    /\ pc = "done"
    /\ \E i \in 1..Len(trun) :
           /\ scheduled_tools[i].name \notin OfferedTools(enabled_tools)
           /\ trun[i].state = "done"
           /\ trun[i].ending = "returns"
           /\ "result" \in DOMAIN results[i]


\* the messages of the prompt's history that came from append_message events
FromEngine(list) == SelectSeq(list, LAMBDA m : m # LimitNotice)

\* C40: when the auto-round loop has finished for a prompt, the messages of
\* all append_message events the engine emitted for the prompt, those of the
\* final round after the round limit included, are in the UI's history in
\* the order of their emission
C40_EveryAppendApplied ==
    u_pc = "done" => FromEngine(u_appended) = u_emitted

\* the loop has finished after a final round behind the round limit
C40_Witness ==
    /\ u_pc = "done"
    /\ \E k \in 1..Len(u_appended) : u_appended[k] = LimitNotice
    /\ u_calls = max_rounds + 1
    /\ Len(u_emitted) > Len(FromEngine(u_appended))

====
